---- MODULE Spec2Model ----
(***************************************************************************)
(* Declaration store and ticket lifecycle of the customs dashboard server. *)
(*                                                                         *)
(* The table fr_section_declarations is a function from declaration_id to  *)
(* a row.  syncDeclarations upserts rows; createProject drives one row     *)
(* through NEW -> PENDING -> CREATED | FAILED around a call of             *)
(* createOdooTicket.  Every await of createProject is a separate step, so  *)
(* handlers of different requests interleave at their awaits, as they do   *)
(* on node's event loop.  The model is of the configuration with           *)
(* USE_MOCK_DB unset (the mock branch never touches the table).            *)
(***************************************************************************)
EXTENDS Integers, Sequences, FiniteSets, Bags, TLC

\* ------------------------------------------------------------------ bounds
\* createProject handlers that can be under way at the same time.
NumHandlers == 2
\* Tickets the collaborator creates in a behaviour.
MaxTickets == 2
\* The clock (NOW(), new Date()) runs from 0 to MaxTime.
MaxTime == 1
\* process.env.SYNC_SECRET || "change_me_in_env"
SYNC_SECRET == "change_me_in_env"
Reqs == 1..NumHandlers

\* SQL NULL / JS null and undefined; a present value v is <<v>>.
NULL == << >>
Val(v) == <<v>>
\* JS truthiness of a nullable number, and of a nullable string.
TruthyNum(x) == x # NULL /\ x[1] # 0
TruthyStr(x) == x # NULL /\ x[1] # ""

\* The messages an error thrown by createOdooTicket carries; "" is an error
\* without a message.
ErrMessages == {"", "SMTP timeout"}

VARIABLES
    rows,       \* the table: declaration_id -> row
    now,        \* the clock
    pc,         \* createProject: where each request's handler stands
    rid,        \* createProject: req.params.id of each request
    ticketId,   \* createProject: what createOdooTicket returned
    odooErr,    \* createProject: message of the error createOdooTicket threw
    res,        \* createProject: the response sent
    tickets,    \* the collaborator: <<declaration_id, ticket id>> it created
    syncRes,    \* syncDeclarations: the last response sent
    sync,       \* syncDeclarations: where the handler stands, and its transaction
    seen,       \* history: declaration_id -> times of its first and latest ingest
    list,       \* getDeclarations: the request being answered and the response
    overlap,    \* history: the request ran while another one for its id did
    sent200,    \* history: the ids a success response was sent for
    crashed,    \* history: the handlers a crash caught after createOdooTicket began
    blob,       \* principals: the list in the blob principals.json
    ph,         \* principals: the handlers of the requests under way
    track,      \* tracking: the records in tracking-data.json, and the last response
    ui,         \* DeclarationsList: the state, and the state each closure captured
    flights,    \* DeclarationsList: the create-project sequences awaiting a response
    client,     \* OdooClient: uid, and the RPCs sent
    ex          \* OdooClient: where each execute call stands

\* The declarations table and its handlers.
tableVars == <<rows, now, pc, rid, ticketId, odooErr, res, tickets,
               syncRes, sync, seen, list, overlap, sent200, crashed>>
principalVars == <<blob, ph>>
uiVars == <<ui, flights>>
clientVars == <<client, ex>>
\* What the handlers of the declarations table leave alone.
extVars == <<principalVars, track, uiVars, clientVars>>

vars == <<tableVars, extVars>>

reqVars == <<pc, rid, ticketId, odooErr, res>>
histVars == <<overlap, sent200, crashed>>

NoRes == [code |-> 0]
\* req.params.id of a handler slot that holds no request.
NoId == 0

\* A handler between its first and its last await.
Active(r) == pc[r] \in {"connect", "select", "pending", "calling", "created", "failed"}
\* The server process runs (a crashed one serves nothing until it is started again).
Up == \A r \in Reqs : pc[r] # "crashed"
\* A handler that has started createOdooTicket and not yet responded.
Called(r) == pc[r] \in {"calling", "created", "failed"}

\* ------------------------------------------------------------ the table
\* The columns the INSERT of syncDeclarations leaves out take their defaults.
ColumnDefaults ==
    [odoo_status |-> "NEW", odoo_project_id |-> NULL, odoo_error |-> NULL,
     odoo_updated_at |-> NULL]

\* Mutant: the UPDATE has no WHERE clause.
Update_noWhere(id, fields) ==
    rows' = [i \in DOMAIN rows |->
                [c \in DOMAIN rows[i] |->
                    IF c \in DOMAIN fields THEN fields[c] ELSE rows[i][c]]]

\* UPDATE fr_section_declarations SET <fields> WHERE declaration_id = id
Update(id, fields) ==
    rows' = [i \in DOMAIN rows |->
                IF i = id
                THEN [c \in DOMAIN rows[i] |->
                         IF c \in DOMAIN fields THEN fields[c] ELSE rows[i][c]]
                ELSE rows[i]]

\* ------------------------------------------- the state beside the table
\* Handlers of /api/fiscal/principals that can be under way at the same time.
NumPHandlers == 2
PHandlers == 1..NumPHandlers
\* A handler slot that holds no request.
PIdle == [pc |-> "idle", op |-> "", name |-> NULL, oldName |-> NULL,
          list |-> << >>, res |-> NoRes]
\* No blob yet (readPrincipals returns [] on 404), no request under way.
InitPrincipals ==
    /\ blob = << >>
    /\ ph = [h \in PHandlers |-> PIdle]

\* No tracking-data.json yet: readData returns { records: [] }.
InitTracking ==
    track = [records |-> << >>, res |-> NoRes, posted |-> 0, accepted |-> << >>]

\* Rows of the page of declarations shown; the row at index i - 1 is the
\* declaration with declaration_id i.
NumUiRows == 2
UiIds == 1..NumUiRows
\* Create-project sequences one page can have under way.
MaxFlights == 2
\* DeclarationsList after its first render with the first page loaded: the
\* React state (isCreatingProject, isBulkSyncing, selectedIds in insertion
\* order, focusedIndex), the rows of the query and the table they are read
\* from, the flags the keydown listener of the last effect run closed over,
\* the counts in the toast of a finished bulk sync while no later toast has
\* replaced it; no create-project sequence under way (a bag of sequences).
\* The modal stays closed (selectedDeclaration = null) and the status filter
\* is cleared, so a row stays on the page whatever its odoo_status. Every
\* state update is rendered before the next event, so the handlers of the
\* buttons and checkboxes see the state itself.
InitUi ==
    /\ ui = [isCreatingProject |-> FALSE, isBulkSyncing |-> FALSE,
             selectedIds |-> << >>, focusedIndex |-> -1,
             rows |-> [i \in UiIds |-> "NEW"],
             server |-> [i \in UiIds |-> "NEW"],
             listener |-> [isCreatingProject |-> FALSE, isBulkSyncing |-> FALSE],
             toast |-> NULL]
    /\ flights = EmptyBag

\* execute calls of the one OdooClient that can be under way at the same time.
NumCalls == 2
Calls == 1..NumCalls
\* new OdooClient(): uid = null; no RPC sent (the numbers of 'authenticate'
\* RPCs sent and failed, and of 'execute_kw' RPCs sent), no call under way.
InitClient ==
    /\ client = [uid |-> NULL, authenticate |-> 0, failed |-> 0, execute_kw |-> 0]
    /\ ex = [c \in Calls |-> "idle"]

InitExt == InitPrincipals /\ InitTracking /\ InitUi /\ InitClient

\* The table is empty and no request is under way.
InitTable ==
    /\ rows = << >>
    /\ now = 0
    /\ pc = [r \in Reqs |-> "idle"]
    /\ rid = [r \in Reqs |-> NoId]
    /\ ticketId = [r \in Reqs |-> NULL]
    /\ odooErr = [r \in Reqs |-> NULL]
    /\ res = [r \in Reqs |-> NoRes]
    /\ tickets = {}
    /\ syncRes = NoRes
    /\ sync = [pc |-> "idle"]
    /\ seen = << >>
    /\ list = NoRes
    /\ overlap = [r \in Reqs |-> FALSE]
    /\ sent200 = {}
    /\ crashed = {}

Init == InitExt /\ InitTable

\* ------------------------------------------------------- syncDeclarations
HexChars == {"0", "1", "2", "3", "4", "5", "6", "7", "8", "9",
             "A", "B", "C", "D", "E", "F", "a", "b", "c", "d", "e", "f"}
\* Length of the run /([A-F0-9]{32})/i matches.
GuidLen == 32
UNKNOWN == <<"U", "N", "K", "N", "O", "W", "N">>
\* A string is a sequence of characters.  A JSON value that is not a string
\* and not falsy (the number 154438) is a one-element sequence no string equals.
JsonNumber == <<"154438 (number)">>
IsString(v) == v # JsonNumber
\* linkString.match is not a function
TypeError == <<"TypeError">>

\* extractGuid: "UNKNOWN" for a falsy link (null, undefined, ""), else the
\* first run of GuidLen hexadecimal characters of the link string, "UNKNOWN"
\* when there is none.  A truthy value that is no string has no match method:
\* the call throws.
extractGuid(linkString) ==
    IF linkString = NULL THEN UNKNOWN
    ELSE IF ~IsString(linkString) THEN TypeError
    ELSE LET n == Len(linkString)
             starts == {i \in 1..n : /\ i + GuidLen - 1 <= n
                                     /\ \A k \in i..(i + GuidLen - 1) :
                                            linkString[k] \in HexChars}
         IN  IF starts = {} THEN UNKNOWN
             ELSE LET i == CHOOSE m \in starts : \A o \in starts : m <= o
                  IN  SubSeq(linkString, i, i + GuidLen - 1)

MockGuid == <<"5", "7", "4", "1", "9", "A", "C", "6", "6", "4", "E", "B", "4", "6", "5", "E",
              "F", "E", "A", "B", "0", "8", "D", "E", "2", "D", "0", "3", "2", "4", "B", "4">>
\* Link strings a sync item carries: one with a GUID in it, one without.
LinkWithGuid == <<"+", "S", "/">> \o MockGuid \o <<"/", "[">>
LinkNoGuid == <<"M", "O", "C", "K">>

\* Values of PRINCIPAL and IMPORTERCODE.
IDEAL == <<"I", "D", "E", "A", "L">>
DKM == <<"D", "K", "M">>
APFELKONI == <<"A", "P", "F", "E", "L", "K", "O", "N", "I">>

\* A record of a sync payload (of its fields, the ones the handlers below read;
\* DATEOFACCEPTANCE is a day number).
Item(id, link, principal, importer, day) ==
    [DECLARATIONID |-> id, ODOO_LINKSTRING_STREAMSOFTWARE |-> link,
     PRINCIPAL |-> principal, IMPORTERCODE |-> importer, DATEOFACCEPTANCE |-> day]

\* The records of the sync payloads: declaration 1, declaration 1 again with
\* another payload, declaration 2, a record with no DECLARATIONID, and a
\* record whose link is a number.
Item1 == Item(Val(1), NULL, IDEAL, APFELKONI, Val(1))
Item1b == Item(Val(1), LinkNoGuid, DKM, NULL, Val(2))
Item2 == Item(Val(2), LinkWithGuid, NULL, NULL, NULL)
ItemNoId == Item(NULL, LinkNoGuid, IDEAL, NULL, NULL)
ItemNumLink == Item(Val(2), JsonNumber, IDEAL, NULL, NULL)

\* req.body: items missing, items not an array, items an array.
Items(b) == [kind |-> "array", items |-> b]
SyncReq(s, b, ok) == [secret |-> s, body |-> b, dbOk |-> ok]
\* The sync request that brings declaration 1.
SyncRequests0 == { SyncReq(SYNC_SECRET, Items(<<Item1>>), TRUE) }
\* Sync requests that touch declaration 1 only, or no declaration at all.
SyncRequests1 ==
    { SyncReq("wrong", Items(<<Item1>>), TRUE),
      SyncReq("wrong", [kind |-> "missing"], TRUE),
      SyncReq(SYNC_SECRET, [kind |-> "missing"], TRUE),
      SyncReq(SYNC_SECRET, [kind |-> "string"], TRUE),
      SyncReq(SYNC_SECRET, Items(<< >>), TRUE),
      SyncReq(SYNC_SECRET, Items(<<Item1>>), TRUE),
      SyncReq(SYNC_SECRET, Items(<<Item1>>), FALSE),
      SyncReq(SYNC_SECRET, Items(<<Item1b>>), TRUE),
      SyncReq(SYNC_SECRET, Items(<<Item1, Item1b>>), TRUE),
      SyncReq(SYNC_SECRET, Items(<<Item1, ItemNoId>>), TRUE) }
\* Sync requests that touch declaration 2 as well: the rejected ones, and
\* batches that bring a declaration, bring one twice, bring two, and that hold
\* a record the store refuses or a link that is no string.
SyncRequests2 ==
    { SyncReq("wrong", Items(<<Item1>>), TRUE),
      SyncReq("wrong", [kind |-> "missing"], TRUE),
      SyncReq(SYNC_SECRET, [kind |-> "missing"], TRUE),
      SyncReq(SYNC_SECRET, [kind |-> "string"], TRUE),
      SyncReq(SYNC_SECRET, Items(<< >>), TRUE),
      SyncReq(SYNC_SECRET, Items(<<Item1>>), TRUE),
      SyncReq(SYNC_SECRET, Items(<<Item1, Item1b>>), TRUE),
      SyncReq(SYNC_SECRET, Items(<<Item1, Item2>>), TRUE),
      SyncReq(SYNC_SECRET, Items(<<Item2, ItemNoId>>), TRUE),
      SyncReq(SYNC_SECRET, Items(<<Item1, ItemNumLink>>), TRUE) }

\* items.map(item => [...]) throws when extractGuid does.
MapThrows(items) ==
    \E k \in 1..Len(items) :
        extractGuid(items[k].ODOO_LINKSTRING_STREAMSOFTWARE) = TypeError

\* items.map(item => [...]): one tuple of column values per item.
values(items, t) ==
    [k \in 1..Len(items) |->
        [declaration_id |-> items[k].DECLARATIONID,
         declaration_guid |-> extractGuid(items[k].ODOO_LINKSTRING_STREAMSOFTWARE),
         odoo_linkstring |-> IF items[k].ODOO_LINKSTRING_STREAMSOFTWARE = NULL
                             THEN << >> ELSE items[k].ODOO_LINKSTRING_STREAMSOFTWARE,
         principal |-> IF items[k].PRINCIPAL = << >> THEN NULL ELSE items[k].PRINCIPAL,
         importer_code |-> IF items[k].IMPORTERCODE = << >>
                           THEN NULL ELSE items[k].IMPORTERCODE,
         date_of_acceptance |-> IF TruthyNum(items[k].DATEOFACCEPTANCE)
                                THEN items[k].DATEOFACCEPTANCE ELSE NULL,
         first_seen_at |-> t,
         last_seen_at |-> t]]

\* The store refuses a row whose key column is NULL.
StoreRejects(v) == v.declaration_id = NULL

\* declaration_id is the key of the table: a tuple whose declaration_id a row
\* already has is a duplicate.
DuplicateKey(table, v) == v.declaration_id[1] \in DOMAIN table

\* Mutant: the INSERT names odoo_status, with the status of a request under way.
NewRow_pending(v) ==
    [declaration_guid |-> v.declaration_guid, odoo_linkstring |-> v.odoo_linkstring,
     principal |-> v.principal, importer_code |-> v.importer_code,
     date_of_acceptance |-> v.date_of_acceptance, first_seen_at |-> v.first_seen_at,
     last_seen_at |-> v.last_seen_at,
     odoo_status |-> "PENDING",
     odoo_project_id |-> ColumnDefaults.odoo_project_id,
     odoo_error |-> ColumnDefaults.odoo_error,
     odoo_updated_at |-> ColumnDefaults.odoo_updated_at]

\* The row an INSERT of the tuple v creates.
NewRow(v) ==
    [declaration_guid |-> v.declaration_guid, odoo_linkstring |-> v.odoo_linkstring,
     principal |-> v.principal, importer_code |-> v.importer_code,
     date_of_acceptance |-> v.date_of_acceptance, first_seen_at |-> v.first_seen_at,
     last_seen_at |-> v.last_seen_at,
     odoo_status |-> ColumnDefaults.odoo_status,
     odoo_project_id |-> ColumnDefaults.odoo_project_id,
     odoo_error |-> ColumnDefaults.odoo_error,
     odoo_updated_at |-> ColumnDefaults.odoo_updated_at]

\* Mutants: the duplicate's first_seen_at is written as well; the duplicate's
\* ticket is reset.
OnDuplicateKeyUpdate_firstSeen(row, t) ==
    [row EXCEPT !.last_seen_at = t, !.first_seen_at = t]
OnDuplicateKeyUpdate_reset(row, t) ==
    [row EXCEPT !.last_seen_at = t, !.odoo_status = ColumnDefaults.odoo_status]

\* ON DUPLICATE KEY UPDATE last_seen_at = NOW()
OnDuplicateKeyUpdate(row, t) == [row EXCEPT !.last_seen_at = t]

\* INSERT ... VALUES ? ON DUPLICATE KEY UPDATE, tuple by tuple: the table after
\* it and affectedRows (1 for an insert, 2 for a row the update changed).
RECURSIVE InsertValues(_, _, _)
InsertValues(table, vs, t) ==
    IF vs = << >> THEN [table |-> table, affectedRows |-> 0]
    ELSE LET v == Head(vs)
             id == v.declaration_id[1]
             dup == DuplicateKey(table, v)
             row == IF dup THEN OnDuplicateKeyUpdate(table[id], t) ELSE NewRow(v)
             n == IF ~dup THEN 1 ELSE IF row = table[id] THEN 0 ELSE 2
             next == [i \in DOMAIN table \cup {id} |-> IF i = id THEN row ELSE table[i]]
             rest == InsertValues(next, Tail(vs), t)
         IN  [table |-> rest.table, affectedRows |-> n + rest.affectedRows]

\* History: the ingest at time t of a batch the store accepted.
Ingest(sn, items, t) ==
    LET ids == {items[k].DECLARATIONID[1] : k \in 1..Len(items)}
    IN  [id \in DOMAIN sn \cup ids |->
            IF id \in ids
            THEN [first |-> IF id \in DOMAIN sn THEN sn[id].first ELSE t, last |-> t]
            ELSE sn[id]]

\* POST /api/sync/upsert, the handler as one step.  The transaction makes the
\* handler's writes visible at once, at its commit; dbOk = FALSE is a
\* connection or statement that throws.
syncDeclarations(secret, body, dbOk) ==
    /\ Up
    /\ sync.pc = "idle"
    /\ UNCHANGED <<extVars, sync, list, now, reqVars, tickets, histVars>>
    /\ IF secret # SYNC_SECRET
       THEN /\ syncRes' = [code |-> 401, error |-> "Unauthorized Sync"]
            /\ UNCHANGED <<rows, seen>>
       ELSE IF body.kind # "array" \/ body.items = << >>
       THEN /\ syncRes' = [code |-> 400, error |-> "Invalid payload"]
            /\ UNCHANGED <<rows, seen>>
       ELSE IF \/ ~dbOk
               \/ MapThrows(body.items)
               \/ \E k \in 1..Len(body.items) : StoreRejects(values(body.items, now)[k])
       THEN /\ syncRes' = [code |-> 500, success |-> FALSE]
            /\ UNCHANGED <<rows, seen>>
       ELSE LET done == InsertValues(rows, values(body.items, now), now)
            IN  /\ rows' = done.table
                /\ seen' = Ingest(seen, body.items, now)
                /\ syncRes' = [code |-> 200, success |-> TRUE,
                               stats |-> [received |-> Len(body.items),
                                          upserted |-> done.affectedRows]]

\* ----------------------------------- syncDeclarations, await by await
\* What the statement of a transaction has written and not yet committed: for
\* each declaration_id it touched, whether it inserted the row, and the
\* columns it wrote.
Staged(table, vs, t) ==
    LET done == InsertValues(table, vs, t)
        ids == {vs[k].declaration_id[1] : k \in 1..Len(vs)}
    IN  [writes |-> [id \in ids |->
                        IF id \in DOMAIN table
                        THEN [c \in {d \in DOMAIN table[id] :
                                        done.table[id][d] # table[id][d]} |->
                                 done.table[id][c]]
                        ELSE done.table[id]],
         affectedRows |-> done.affectedRows]

\* The table once the writes of a transaction are committed.
Committed(table, writes) ==
    [id \in DOMAIN table \cup DOMAIN writes |->
        IF id \notin DOMAIN writes THEN table[id]
        ELSE IF id \notin DOMAIN table THEN writes[id]
        ELSE [c \in DOMAIN table[id] |->
                 IF c \in DOMAIN writes[id] THEN writes[id][c] ELSE table[id][c]]]

SyncFrame == <<extVars, now, list, reqVars, tickets, histVars>>

\* Mutant: the payload is validated before the secret is looked at.
syncReceive_validateFirst(secret, body) ==
    /\ Up
    /\ sync.pc = "idle"
    /\ IF body.kind # "array" \/ body.items = << >>
       THEN /\ syncRes' = [code |-> 400, error |-> "Invalid payload"]
            /\ sync' = [pc |-> "rejected", secret |-> secret, body |-> body]
       ELSE IF secret # SYNC_SECRET
       THEN /\ syncRes' = [code |-> 401, error |-> "Unauthorized Sync"]
            /\ sync' = [pc |-> "rejected", secret |-> secret, body |-> body]
       ELSE /\ syncRes' = NoRes
            /\ sync' = [pc |-> "connect", secret |-> secret, body |-> body]
    /\ UNCHANGED <<rows, seen, SyncFrame>>

\* The request arrives: "Auth", then "Validation"; a request that passes both
\* goes on to ask for a connection.
syncReceive(secret, body) ==
    /\ Up
    /\ sync.pc = "idle"
    /\ IF secret # SYNC_SECRET
       THEN /\ syncRes' = [code |-> 401, error |-> "Unauthorized Sync"]
            /\ sync' = [pc |-> "rejected", secret |-> secret, body |-> body]
       ELSE IF body.kind # "array" \/ body.items = << >>
       THEN /\ syncRes' = [code |-> 400, error |-> "Invalid payload"]
            /\ sync' = [pc |-> "rejected", secret |-> secret, body |-> body]
       ELSE /\ syncRes' = NoRes
            /\ sync' = [pc |-> "connect", secret |-> secret, body |-> body]
    /\ UNCHANGED <<rows, seen, SyncFrame>>

\* await getDbConnection(): with no connection the catch block has nothing to
\* roll back and answers 500.
syncConnect ==
    /\ sync.pc = "connect"
    /\ \/ /\ sync' = [sync EXCEPT !.pc = "begin"]
          /\ UNCHANGED syncRes
       \/ /\ sync' = [sync EXCEPT !.pc = "end"]
          /\ syncRes' = [code |-> 500, success |-> FALSE]
    /\ UNCHANGED <<rows, seen, SyncFrame>>

\* await connection.beginTransaction()
syncBegin ==
    /\ sync.pc = "begin"
    /\ \/ sync' = [sync EXCEPT !.pc = "query"]
       \/ sync' = [sync EXCEPT !.pc = "rollback"]
    /\ UNCHANGED <<rows, seen, syncRes, SyncFrame>>

\* const values = items.map(...) and await connection.query(query, [values]):
\* the map throws, or the store rejects a tuple, or the statement fails
\* otherwise, or it returns with its writes staged in the transaction.
syncQuery ==
    /\ sync.pc = "query"
    /\ LET items == sync.body.items
       IN  IF MapThrows(items) \/ \E k \in 1..Len(items) : StoreRejects(values(items, now)[k])
           THEN sync' = [sync EXCEPT !.pc = "rollback"]
           ELSE \/ sync' = [pc |-> "commit", secret |-> sync.secret, body |-> sync.body,
                            t |-> now, staged |-> Staged(rows, values(items, now), now)]
                \/ sync' = [sync EXCEPT !.pc = "rollback"]
    /\ UNCHANGED <<rows, seen, syncRes, SyncFrame>>

\* await connection.commit() and res.json({ success: true, stats }), or the
\* commit throws.
syncCommit ==
    /\ sync.pc = "commit"
    /\ \/ /\ rows' = Committed(rows, sync.staged.writes)
          /\ seen' = Ingest(seen, sync.body.items, sync.t)
          /\ syncRes' = [code |-> 200, success |-> TRUE,
                         stats |-> [received |-> Len(sync.body.items),
                                    upserted |-> sync.staged.affectedRows]]
          /\ sync' = [pc |-> "end", secret |-> sync.secret, body |-> sync.body]
       \/ /\ sync' = [pc |-> "rollback", secret |-> sync.secret, body |-> sync.body]
          /\ UNCHANGED <<rows, seen, syncRes>>
    /\ UNCHANGED SyncFrame

\* catch (err): await connection.rollback(), then 500.  When the rollback
\* itself throws (the connection is gone, and the store drops the
\* transaction) the catch block is left before it answers.
syncRollback ==
    /\ sync.pc = "rollback"
    /\ sync' = [sync EXCEPT !.pc = "end"]
    /\ \/ syncRes' = [code |-> 500, success |-> FALSE]
       \/ UNCHANGED syncRes
    /\ UNCHANGED <<rows, seen, SyncFrame>>

\* The handler is over (finally: connection.end()).
syncEnd ==
    /\ sync.pc \in {"end", "rejected"}
    /\ sync' = [pc |-> "idle"]
    /\ UNCHANGED <<rows, seen, syncRes, SyncFrame>>

syncUpsert ==
    \/ syncConnect
    \/ syncBegin
    \/ syncQuery
    \/ syncCommit
    \/ syncRollback
    \/ syncEnd

\* The clock advances.
Tick ==
    /\ now < MaxTime
    /\ now' = now + 1
    /\ UNCHANGED <<extVars, rows, sync, seen, list, reqVars, tickets, syncRes, histVars>>

\* ---------------------------------------------------------- createProject
\* Mutants of the guard: one that reads odoo_error, one that never rejects.
AlreadyExists_onError(decl) == TruthyStr(decl.odoo_error)
AlreadyExists_never(decl) == FALSE

\* Mutant: the guard reads the status as well.
AlreadyExists_orUnderWay(decl) ==
    TruthyNum(decl.odoo_project_id) \/ decl.odoo_status = "PENDING"

\* "2. Check if already exists": the guard reads the project id, not the status.
AlreadyExists(decl) == TruthyNum(decl.odoo_project_id)

\* Mutant: the UPDATE to PENDING sets last_seen_at as well.
PendingFields_seen(t) ==
    [odoo_status |-> "PENDING", odoo_updated_at |-> Val(t), last_seen_at |-> t]

\* SET clauses of the three UPDATE statements.
PendingFields(t) == [odoo_status |-> "PENDING", odoo_updated_at |-> Val(t)]

\* Mutant: the failure branch writes the status of the success branch.
FailedFields_created(message, t) ==
    [odoo_status |-> "CREATED",
     odoo_error |-> IF TruthyStr(message) THEN message ELSE Val("Unknown Odoo Error"),
     odoo_updated_at |-> Val(t)]

FailedFields(message, t) ==
    [odoo_status |-> "FAILED",
     odoo_error |-> IF TruthyStr(message) THEN message ELSE Val("Unknown Odoo Error"),
     odoo_updated_at |-> Val(t)]

\* Mutant: the success UPDATE leaves odoo_updated_at as it was.
CreatedFields_staleTime(ticket, t) ==
    [odoo_status |-> "CREATED", odoo_project_id |-> ticket, odoo_error |-> NULL]

CreatedFields(ticket, t) ==
    [odoo_status |-> "CREATED", odoo_project_id |-> ticket, odoo_error |-> NULL,
     odoo_updated_at |-> Val(t)]

\* catch (err): 500, whatever threw.
InternalServerError == [code |-> 500, error |-> "Internal Server Error"]

\* The response is sent and the handler's locals go out of scope; what is
\* left of the handler is finally's connection.end().
Respond(r, response) ==
    /\ pc' = [pc EXCEPT ![r] = "done"]
    /\ res' = [res EXCEPT ![r] = response]
    /\ ticketId' = [ticketId EXCEPT ![r] = NULL]
    /\ odooErr' = [odooErr EXCEPT ![r] = NULL]
    /\ sent200' = IF response.code = 200 THEN sent200 \cup {rid[r]} ELSE sent200

\* The handler goes on to its next await.
Goto(r, label) ==
    /\ pc' = [pc EXCEPT ![r] = label]
    /\ UNCHANGED <<extVars, res, ticketId, odooErr, sent200>>

\* POST /api/declarations/:id/create-project arrives and the handler asks for
\* a connection.  With sameIdMayOverlap = FALSE no request for the same id is
\* under way.  A request takes the first free handler slot.
Receive(r, id, sameIdMayOverlap) ==
    /\ Up
    /\ pc[r] = "idle"
    /\ \A o \in Reqs : o < r => pc[o] # "idle"
    /\ sameIdMayOverlap \/ ~\E o \in Reqs : pc[o] # "idle" /\ rid[o] = id
    /\ pc' = [pc EXCEPT ![r] = "connect"]
    /\ rid' = [rid EXCEPT ![r] = id]
    /\ overlap' = [o \in Reqs |->
                     IF \E p \in Reqs \ {r} : Active(p) /\ rid[p] = id
                     THEN overlap[o] \/ o = r \/ (Active(o) /\ rid[o] = id)
                     ELSE overlap[o]]
    /\ UNCHANGED <<extVars, rows, sync, seen, list, now, ticketId, odooErr, res, tickets, syncRes, sent200,
                   crashed>>

\* await getDbConnection()
Connect(r) ==
    /\ pc[r] = "connect"
    /\ \/ Goto(r, "select")
       \/ Respond(r, InternalServerError)
    /\ UNCHANGED <<extVars, rows, sync, seen, list, now, rid, tickets, syncRes, overlap, crashed>>

\* "1. Fetch Declaration" and "2. Check if already exists"; a declaration that
\* passes has its UPDATE to PENDING issued.  (The row read, const declaration,
\* is used for the check and handed to createOdooTicket.)
Select(r) ==
    /\ pc[r] = "select"
    /\ \/ /\ rid[r] \notin DOMAIN rows
          /\ Respond(r, [code |-> 404, error |-> "Declaration not found"])
       \/ /\ rid[r] \in DOMAIN rows
          /\ IF AlreadyExists(rows[rid[r]])
             THEN Respond(r, [code |-> 400, error |-> "Ticket already exists",
                              odoo_project_id |-> rows[rid[r]].odoo_project_id])
             ELSE Goto(r, "pending")
       \/ Respond(r, InternalServerError)
    /\ UNCHANGED <<extVars, rows, sync, seen, list, now, rid, tickets, syncRes, overlap, crashed>>

\* Mutant: the collaborator is called with the UPDATE to PENDING not made.
Pending_callFirst(r) ==
    /\ pc[r] = "pending"
    /\ Goto(r, "calling")
    /\ UNCHANGED <<extVars, rows, sync, seen, list, now, rid, tickets, syncRes, overlap, crashed>>

\* "3. Update status to PENDING"; once the UPDATE has returned, "4. Call Odoo
\* Service" starts.
Pending(r) ==
    /\ pc[r] = "pending"
    /\ \/ /\ Update(rid[r], PendingFields(now))
          /\ Goto(r, "calling")
       \/ /\ Respond(r, InternalServerError)
          /\ UNCHANGED rows
    /\ UNCHANGED <<extVars, sync, seen, list, now, rid, tickets, syncRes, overlap, crashed>>

\* createOdooTicket returns the id of the ticket it created, a fresh positive
\* number; the handler issues "5. Success - Update DB".
createOdooTicket_returns(r) ==
    /\ pc[r] = "calling"
    /\ Cardinality(tickets) < MaxTickets
    /\ LET t == Cardinality(tickets) + 1
       IN  /\ tickets' = tickets \cup {<<rid[r], t>>}
           /\ ticketId' = [ticketId EXCEPT ![r] = Val(t)]
    /\ pc' = [pc EXCEPT ![r] = "created"]
    /\ UNCHANGED <<extVars, rows, sync, seen, list, now, rid, odooErr, res, syncRes, histVars>>

\* createOdooTicket throws; the handler issues the UPDATE to FAILED.
createOdooTicket_throws(r, message) ==
    /\ pc[r] = "calling"
    /\ odooErr' = [odooErr EXCEPT ![r] = Val(message)]
    /\ pc' = [pc EXCEPT ![r] = "failed"]
    /\ UNCHANGED <<extVars, rows, sync, seen, list, now, rid, ticketId, res, tickets, syncRes, histVars>>

\* Mutant: the failure is answered with the UPDATE to FAILED not made.
Failed_noWrite(r) ==
    /\ pc[r] = "failed"
    /\ Respond(r, [code |-> 502, error |-> "Failed to create ticket in Odoo",
                   details |-> odooErr[r]])
    /\ UNCHANGED <<extVars, rows, sync, seen, list, now, rid, tickets, syncRes, overlap, crashed>>

\* The UPDATE to FAILED returns and 502 is sent, or it throws.
Failed(r) ==
    /\ pc[r] = "failed"
    /\ \/ /\ Update(rid[r], FailedFields(odooErr[r], now))
          /\ Respond(r, [code |-> 502, error |-> "Failed to create ticket in Odoo",
                         details |-> odooErr[r]])
       \/ /\ Respond(r, InternalServerError)
          /\ UNCHANGED rows
    /\ UNCHANGED <<extVars, sync, seen, list, now, rid, tickets, syncRes, overlap, crashed>>

\* The UPDATE to CREATED returns and the success response is sent, or it throws.
Created(r) ==
    /\ pc[r] = "created"
    /\ \/ /\ Update(rid[r], CreatedFields(ticketId[r], now))
          /\ Respond(r, [code |-> 200, success |-> TRUE,
                         odoo_project_id |-> ticketId[r], status |-> "CREATED"])
       \/ /\ Respond(r, InternalServerError)
          /\ UNCHANGED rows
    /\ UNCHANGED <<extVars, sync, seen, list, now, rid, tickets, syncRes, overlap, crashed>>

\* finally: connection.end() returns; the handler is gone.
Close(r) ==
    /\ pc[r] = "done"
    /\ pc' = [pc EXCEPT ![r] = "idle"]
    /\ rid' = [rid EXCEPT ![r] = NoId]
    /\ res' = [res EXCEPT ![r] = NoRes]
    /\ overlap' = [overlap EXCEPT ![r] = FALSE]
    /\ UNCHANGED <<extVars, rows, sync, seen, list, now, ticketId, odooErr, tickets, syncRes, sent200, crashed>>

\* The server process dies: every handler under way stops where it is, with
\* no response, and its locals are lost; the table keeps what was written.
Crash ==
    /\ \E r \in Reqs : Active(r)
    /\ crashed' = {r \in Reqs : Called(r)}
    /\ pc' = [r \in Reqs |-> IF pc[r] = "idle" THEN "idle" ELSE "crashed"]
    /\ ticketId' = [r \in Reqs |-> NULL]
    /\ odooErr' = [r \in Reqs |-> NULL]
    /\ res' = [r \in Reqs |-> NoRes]
    /\ UNCHANGED <<extVars, rows, sync, seen, list, now, rid, tickets, syncRes, overlap, sent200>>

\* The server process is started again, with no handler under way.
Restart ==
    /\ \E r \in Reqs : pc[r] = "crashed"
    /\ pc' = [r \in Reqs |-> "idle"]
    /\ rid' = [r \in Reqs |-> NoId]
    /\ overlap' = [r \in Reqs |-> FALSE]
    /\ crashed' = {}
    /\ UNCHANGED <<extVars, rows, sync, seen, list, now, ticketId, odooErr, res, tickets, syncRes, sent200>>

createProject(r) ==
    \/ Connect(r)
    \/ Select(r)
    \/ Pending(r)
    \/ createOdooTicket_returns(r)
    \/ \E m \in ErrMessages : createOdooTicket_throws(r, m)
    \/ Failed(r)
    \/ Created(r)
    \/ Close(r)

\* --------------------------------------------------------- getDeclarations
\* Query parameters are strings (sequences of characters) or missing (NULL).
\* parseInt's NaN: no number.
NaN == << >>
DigitValue == [c \in {"0", "1", "2", "3", "4", "5", "6", "7", "8", "9"} |->
                 CASE c = "0" -> 0 [] c = "1" -> 1 [] c = "2" -> 2 [] c = "3" -> 3
                   [] c = "4" -> 4 [] c = "5" -> 5 [] c = "6" -> 6 [] c = "7" -> 7
                   [] c = "8" -> 8 [] c = "9" -> 9]

\* The value of the digits str starts with, -1 when it starts with none.
RECURSIVE LeadingDigits(_, _)
LeadingDigits(str, acc) ==
    IF str = << >> \/ Head(str) \notin DOMAIN DigitValue THEN acc
    ELSE LeadingDigits(Tail(str), (IF acc < 0 THEN 0 ELSE acc * 10) + DigitValue[Head(str)])

\* parseInt(str), radix 10: leading blanks, a sign, then the digits up to the
\* first character that is none; NaN when there is no digit (and for
\* undefined).  What follows the digits is dropped.
RECURSIVE parseInt(_)
parseInt(str) ==
    IF str = << >> THEN NaN
    ELSE IF Head(str) = " " THEN parseInt(Tail(str))
    ELSE LET signed == Head(str) \in {"+", "-"}
             n == LeadingDigits(IF signed THEN Tail(str) ELSE str, -1)
         IN  IF n < 0 THEN NaN
             ELSE IF Head(str) = "-" THEN Val(0 - n) ELSE Val(n)

DefaultPage == 1
DefaultPageSize == 50
\* parseInt(x) || d
OrDefault(n, d) == IF n = NaN \/ n = Val(0) THEN d ELSE n[1]

\* subject LIKE pattern: % matches any run of characters, _ any one character.
\* (Characters are compared as they are; the filters below are in the case of
\* the data, so the collation of the column plays no part.)
RECURSIVE Like(_, _)
Like(subject, pattern) ==
    IF pattern = << >> THEN subject = << >>
    ELSE IF Head(pattern) = "%"
    THEN Like(subject, Tail(pattern)) \/ (subject # << >> /\ Like(Tail(subject), pattern))
    ELSE /\ subject # << >>
         /\ Head(pattern) = "_" \/ Head(pattern) = Head(subject)
         /\ Like(Tail(subject), Tail(pattern))

\* baseQuery: "WHERE 1=1" and one AND per filter that is not falsy.  A
\* comparison with a NULL column is not true.
Where(row, q) ==
    /\ q.from # NULL =>
          row.date_of_acceptance # NULL /\ row.date_of_acceptance[1] >= q.from[1]
    /\ q.to # NULL =>
          row.date_of_acceptance # NULL /\ row.date_of_acceptance[1] <= q.to[1]
    /\ q.status # NULL => row.odoo_status = q.status[1]
    /\ q.principal # NULL =>
          row.principal # NULL /\ Like(row.principal, <<"%">> \o q.principal \o <<"%">>)
    /\ q.importer # NULL =>
          row.importer_code # NULL
              /\ Like(row.importer_code, <<"%">> \o q.importer \o <<"%">>)

\* ORDER BY date_of_acceptance DESC: NULL sorts last, and rows of one date
\* come in any order.  The orders of the ids in S.
SortKey(row) == IF row.date_of_acceptance = NULL THEN 0 ELSE row.date_of_acceptance[1]
\* The orders of rows of which some share a date: a latest row first.
RECURSIVE OrderWithTies(_, _)
OrderWithTies(table, S) ==
    IF S = {} THEN {<< >>}
    ELSE LET keys == {SortKey(table[j]) : j \in S}
             latest == CHOOSE k \in keys : \A l \in keys : l <= k
         IN  UNION {{<<i>> \o o : o \in OrderWithTies(table, S \ {i})} :
                       i \in {j \in S : SortKey(table[j]) = latest}}

\* With no two rows of one date there is one order: a row stands behind as
\* many rows as are later than it.
OrderByDateDesc(table, S) ==
    LET keyOf == {<<i, SortKey(table[i])>> : i \in S}
        later == {<<p[1], Cardinality({q \in keyOf : q[2] > p[2]})>> : p \in keyOf}
    IN  IF \A p, q \in keyOf : p[1] # q[1] => p[2] # q[2]
        THEN {[k \in 1..Cardinality(S) |-> (CHOOSE p \in later : p[2] = k - 1)[1]]}
        ELSE OrderWithTies(table, S)

\* LIMIT n OFFSET m
Limit(ordered, n, m) ==
    SubSeq(ordered, m + 1, IF m + n < Len(ordered) THEN m + n ELSE Len(ordered))

\* Mutant: the quotient is rounded down.
Ceil_floor(total, pageSize) == total \div pageSize

\* Math.ceil(total / pageSize), pageSize > 0
Ceil(total, pageSize) == (total + pageSize - 1) \div pageSize

FetchFailed == [code |-> 500, error |-> "Failed to fetch declarations"]

\* GET /api/declarations.  data is the declaration_id of each row returned,
\* in order.  A negative LIMIT or OFFSET is a statement the store refuses; the
\* connection or a statement may fail otherwise.  (COUNT and SELECT are two
\* statements; here nothing writes between them.)
getDeclarations(q) ==
    /\ Up
    /\ list = NoRes
    /\ LET page == OrDefault(parseInt(q.page), DefaultPage)
           pageSize == OrDefault(parseInt(q.pageSize), DefaultPageSize)
           offset == (page - 1) * pageSize
           matching == {id \in DOMAIN rows : Where(rows[id], q)}
           total == Cardinality(matching)
       IN  \/ /\ pageSize >= 0 /\ offset >= 0
              /\ \E ordered \in OrderByDateDesc(rows, matching) :
                    list' = [query |-> q,
                             res |-> [code |-> 200,
                                      data |-> Limit(ordered, pageSize, offset),
                                      pagination |->
                                          [page |-> page, pageSize |-> pageSize,
                                           total |-> total,
                                           totalPages |-> Ceil(total, pageSize)]]]
           \/ /\ pageSize < 0 \/ offset < 0
              /\ list' = [query |-> q, res |-> FetchFailed]
           \/ list' = [query |-> q, res |-> FetchFailed]
    /\ UNCHANGED <<extVars, rows, sync, seen, now, reqVars, tickets, syncRes, histVars>>

\* The response is with the caller.
listEnd ==
    /\ list # NoRes
    /\ list' = NoRes
    /\ UNCHANGED <<extVars, rows, sync, seen, now, reqVars, tickets, syncRes, histVars>>

\* Rows per table of the query specification, and of its one large table.
MaxRows == 3
BigRows == 137

\* Rows as the handlers above leave them: ingested at time 0, and one of them
\* CREATED since.
RowOf(item) == NewRow(values(<<item>>, 0)[1])
RowCreated(item, ticket) ==
    [c \in DOMAIN RowOf(item) |->
        IF c \in DOMAIN CreatedFields(ticket, 0) THEN CreatedFields(ticket, 0)[c]
        ELSE RowOf(item)[c]]
X_1 == <<"X", "_", "1">>
XY1 == <<"X", "Y", "1">>
RowKinds ==
    { RowOf(Item(Val(1), NULL, IDEAL, APFELKONI, Val(1))),
      RowCreated(Item(Val(1), NULL, DKM, XY1, Val(2)), Val(1)),
      RowOf(Item(Val(1), NULL, NULL, NULL, NULL)),
      RowOf(Item(Val(1), NULL, IDEAL, X_1, Val(2))) }
\* Tables of up to MaxRows rows, and one of BigRows rows accepted on BigRows
\* different days.
Tables ==
    UNION {[1..n -> RowKinds] : n \in 0..MaxRows}
        \cup {[id \in 1..BigRows |-> RowOf(Item(Val(id), NULL, IDEAL, APFELKONI, Val(id)))]}

\* req.query
Query(page, pageSize, from, to, status, principal, importer) ==
    [page |-> page, pageSize |-> pageSize, from |-> from, to |-> to,
     status |-> status, principal |-> principal, importer |-> importer]
PageParams == {NULL, <<"0">>, <<"1">>, <<"2">>, <<"3">>, <<"2", "x">>,
               <<"a", "b", "c">>, <<"-", "1">>}
PageSizeParams == {NULL, <<"0">>, <<"1">>, <<"2">>, <<"5", "0">>, <<"x">>}
\* Every page of every size with no filter, and every set of filters on the
\* default page and on page 2 of size 1.
Queries ==
    {Query(p, s, NULL, NULL, NULL, NULL, NULL) : p \in PageParams, s \in PageSizeParams}
        \cup UNION {{Query(ps[1], ps[2], f, t, st, pr, im) :
                        f \in {NULL, Val(2)}, t \in {NULL, Val(1)},
                        st \in {NULL, Val("NEW")}, pr \in {NULL, <<"D", "E">>},
                        im \in {NULL, <<"_", "1">>, <<"X">>}} :
                    ps \in {<<NULL, NULL>>, <<(<<"2">>), (<<"1">>)>>}}

\* The table is one of Tables; nothing else has happened.
InitQuery ==
    /\ InitExt
    /\ rows \in Tables
    /\ now = 0
    /\ pc = [r \in Reqs |-> "idle"]
    /\ rid = [r \in Reqs |-> NoId]
    /\ ticketId = [r \in Reqs |-> NULL]
    /\ odooErr = [r \in Reqs |-> NULL]
    /\ res = [r \in Reqs |-> NoRes]
    /\ tickets = {<<id, rows[id].odoo_project_id[1]>> :
                     id \in {i \in DOMAIN rows : rows[i].odoo_project_id # NULL}}
    /\ syncRes = NoRes
    /\ sync = [pc |-> "idle"]
    /\ seen = [id \in DOMAIN rows |->
                 [first |-> rows[id].first_seen_at, last |-> rows[id].last_seen_at]]
    /\ list = NoRes
    /\ overlap = [r \in Reqs |-> FALSE]
    /\ sent200 = {}
    /\ crashed = {}

NextQuery ==
    \/ \E q \in Queries : getDeclarations(q)
    \/ listEnd

QuerySpec == InitQuery /\ [][NextQuery]_vars

\* Requests for declaration 1, which may overlap, at one reading of the clock.
Next ==
    \/ \E r \in Reqs : Receive(r, 1, TRUE)
    \/ \E r \in Reqs : createProject(r)
    \/ \E q \in SyncRequests0 : syncDeclarations(q.secret, q.body, q.dbOk)
    \/ Crash
    \/ Restart

\* Requests for declaration 1 that arrive one after the other, while the
\* clock runs.
NextSeq ==
    \/ \E r \in Reqs : Receive(r, 1, FALSE)
    \/ \E r \in Reqs : createProject(r)
    \/ \E q \in SyncRequests1 : syncDeclarations(q.secret, q.body, q.dbOk)
    \/ Tick
    \/ Crash
    \/ Restart

Spec == Init /\ [][Next]_vars
SeqSpec == Init /\ [][NextSeq]_vars

\* A step of a handler in which no UPDATE throws (a connection or a SELECT may).
WritesSucceed(r) ==
    ~(pc[r] \in {"pending", "created", "failed"} /\ res'[r] = InternalServerError)

\* The steps of handler r while the process stays up and its UPDATEs succeed.
Handle(r) == createProject(r) /\ WritesSucceed(r)

\* Overlapping requests for declaration 1 on a process that stays up, with
\* UPDATEs that succeed.  The event loop resumes every handler whose await
\* has settled, and createOdooTicket settles: each handler's steps are
\* weakly fair.
NextLive ==
    \/ \E r \in Reqs : Receive(r, 1, TRUE)
    \/ \E r \in Reqs : Handle(r)
    \/ \E q \in SyncRequests0 : syncDeclarations(q.secret, q.body, q.dbOk)

LiveSpec == Init /\ [][NextLive]_vars /\ \A r \in Reqs : WF_vars(Handle(r))

\* Sync requests, await by await, beside requests for declaration 1 that
\* arrive one after the other, while the clock runs.
NextSync ==
    \/ \E q \in SyncRequests2 : syncReceive(q.secret, q.body)
    \/ syncUpsert
    \/ \E r \in Reqs : Receive(r, 1, FALSE)
    \/ \E r \in Reqs : createProject(r)
    \/ Tick

SyncSpec == Init /\ [][NextSync]_vars

\* Two declarations, each NEW as syncDeclarations left it at time 0 or CREATED
\* since, and the tickets the collaborator has made for them.
PairItem(id) == Item(Val(id), NULL, IF id = 1 THEN IDEAL ELSE DKM, NULL, NULL)
PairTables ==
    { <<RowOf(PairItem(1)), RowOf(PairItem(2))>>,
      <<RowCreated(PairItem(1), Val(1)), RowOf(PairItem(2))>>,
      <<RowOf(PairItem(1)), RowCreated(PairItem(2), Val(1))>>,
      <<RowCreated(PairItem(1), Val(1)), RowCreated(PairItem(2), Val(2))>> }

InitPair ==
    /\ InitExt
    /\ rows \in PairTables
    /\ now = 0
    /\ pc = [r \in Reqs |-> "idle"]
    /\ rid = [r \in Reqs |-> NoId]
    /\ ticketId = [r \in Reqs |-> NULL]
    /\ odooErr = [r \in Reqs |-> NULL]
    /\ res = [r \in Reqs |-> NoRes]
    /\ tickets = {<<id, rows[id].odoo_project_id[1]>> :
                     id \in {i \in DOMAIN rows : rows[i].odoo_project_id # NULL}}
    /\ syncRes = NoRes
    /\ sync = [pc |-> "idle"]
    /\ seen = [id \in DOMAIN rows |->
                 [first |-> rows[id].first_seen_at, last |-> rows[id].last_seen_at]]
    /\ list = NoRes
    /\ overlap = [r \in Reqs |-> FALSE]
    /\ sent200 = {}
    /\ crashed = {}

\* One request for declaration 1 and one for declaration 2, in either order
\* of arrival, their handlers interleaved at their awaits while the clock
\* runs.  (A handler that has answered keeps its slot: no third request.)
NextPair ==
    \/ \E r \in Reqs, id \in {1, 2} : Receive(r, id, FALSE)
    \/ \E r \in Reqs : Connect(r)
    \/ \E r \in Reqs : Select(r)
    \/ \E r \in Reqs : Pending(r)
    \/ \E r \in Reqs : createOdooTicket_returns(r)
    \/ \E r \in Reqs, m \in ErrMessages : createOdooTicket_throws(r, m)
    \/ \E r \in Reqs : Failed(r)
    \/ \E r \in Reqs : Created(r)
    \/ Tick

PairSpec == InitPair /\ [][NextPair]_vars

\* ------------------------------------------------- /api/fiscal/principals
\* Names are strings: sequences of characters.
toLowerCase(str) ==
    [k \in 1..Len(str) |->
        CASE str[k] = "A" -> "a" [] str[k] = "B" -> "b" [] str[k] = "C" -> "c"
          [] OTHER -> str[k]]

\* String.prototype.trim
RECURSIVE trimStart(_)
trimStart(str) ==
    IF str # << >> /\ Head(str) = " " THEN trimStart(Tail(str)) ELSE str
RECURSIVE trimEnd(_)
trimEnd(str) ==
    IF str # << >> /\ str[Len(str)] = " " THEN trimEnd(SubSeq(str, 1, Len(str) - 1)) ELSE str
trim(str) == trimEnd(trimStart(str))

\* a.localeCompare(b) on lower-case names: -1, 0 or 1, character by character,
\* a blank before the letters, the letters in alphabetical order.
CharRank(c) == CASE c = " " -> 0 [] c = "a" -> 1 [] c = "b" -> 2 [] c = "c" -> 3
RECURSIVE localeCompare(_, _)
localeCompare(a, b) ==
    IF a = << >> THEN (IF b = << >> THEN 0 ELSE -1)
    ELSE IF b = << >> THEN 1
    ELSE IF CharRank(Head(a)) < CharRank(Head(b)) THEN -1
    ELSE IF CharRank(Head(a)) > CharRank(Head(b)) THEN 1
    ELSE localeCompare(Tail(a), Tail(b))

\* principals.sort((a, b) => a.toLowerCase().localeCompare(b.toLowerCase())):
\* a stable sort; each name goes behind the names that do not come after it.
RECURSIVE sort(_)
sort(principals) ==
    IF principals = << >> THEN << >>
    ELSE LET front == sort(SubSeq(principals, 1, Len(principals) - 1))
             x == principals[Len(principals)]
             keep == {k \in 1..Len(front) :
                         localeCompare(toLowerCase(front[k]), toLowerCase(x)) <= 0}
             n == IF keep = {} THEN 0 ELSE CHOOSE k \in keep : \A l \in keep : l <= k
         IN  SubSeq(front, 1, n) \o <<x>> \o SubSeq(front, n + 1, Len(front))

\* Mutant: the names are compared as they are.
someEqualIgnoringCase_exact(principals, trimmed, except) ==
    \E k \in 1..Len(principals) : principals[k] = trimmed /\ principals[k] # except

\* principals.some(p => p.toLowerCase() === trimmed.toLowerCase() && p !== except);
\* POST has no exception (except is NULL, which no stored name is).
someEqualIgnoringCase(principals, trimmed, except) ==
    \E k \in 1..Len(principals) :
        toLowerCase(principals[k]) = toLowerCase(trimmed) /\ principals[k] # except

\* principals.findIndex(p => p === name); 0 for -1.
findIndex(principals, name) ==
    LET found == {k \in 1..Len(principals) : principals[k] = name}
    IN  IF found = {} THEN 0 ELSE CHOOSE k \in found : \A l \in found : k <= l

\* req.body of the three requests; a missing field and "" are both falsy.
PReq(op, name, oldName) == [op |-> op, name |-> name, oldName |-> oldName]
BodyNames == {NULL, <<" ">>, <<"a">>, <<"A">>, <<" ", "b">>}
OldNames == {NULL, <<"a">>, <<"b">>}
PRequests ==
    {PReq("POST", n, NULL) : n \in BodyNames}
        \cup {PReq("PUT", n, o) : n \in BodyNames, o \in OldNames}
        \cup {PReq("DELETE", n, NULL) : n \in OldNames}

\* The check of the body, before the first await.
BodyRejected(q) ==
    CASE q.op = "POST" -> q.name = NULL \/ trim(q.name) = << >>
      [] q.op = "PUT" -> q.oldName = NULL \/ q.name = NULL \/ trim(q.name) = << >>
      [] q.op = "DELETE" -> q.name = NULL

PResponse(code, error) == [code |-> code, error |-> error]
BodyRequired(op) ==
    IF op = "PUT" THEN "Both oldName and newName are required"
    ELSE "Principal name is required"
PFailed(op) ==
    PResponse(500, CASE op = "POST" -> "Failed to add principal"
                     [] op = "PUT" -> "Failed to update principal"
                     [] op = "DELETE" -> "Failed to delete principal")

\* The handler answers and is over: its locals are gone.
PAnswer(h, response) ==
    ph' = [ph EXCEPT ![h] = [PIdle EXCEPT !.pc = "done", !.op = ph[h].op,
                                          !.res = response]]

\* A request arrives, takes the first free handler, and its body is checked.
principalsReceive(h, q) ==
    /\ ph[h].pc = "idle"
    /\ \A o \in PHandlers : o < h => ph[o].pc # "idle"
    /\ ph' = [ph EXCEPT ![h] =
                 IF BodyRejected(q)
                 THEN [PIdle EXCEPT !.pc = "done", !.op = q.op,
                                    !.res = PResponse(400, BodyRequired(q.op))]
                 ELSE [PIdle EXCEPT !.pc = "read", !.op = q.op, !.name = q.name,
                                    !.oldName = q.oldName]]
    /\ UNCHANGED <<tableVars, blob, track, uiVars, clientVars>>

\* What each handler does with the list it has read, up to its next await:
\* a response, or the list to write.
ToWrite(principals) == [write |-> TRUE, principals |-> principals]
Refuse(response) == [write |-> FALSE, res |-> response]
addPrincipal(principals, name) ==
    LET trimmed == trim(name)
    IN  IF someEqualIgnoringCase(principals, trimmed, NULL)
        THEN Refuse(PResponse(409, "Principal already exists"))
        ELSE ToWrite(sort(Append(principals, trimmed)))
updatePrincipal(principals, oldName, newName) ==
    LET index == findIndex(principals, oldName)
        trimmed == trim(newName)
    IN  IF index = 0 THEN Refuse(PResponse(404, "Principal not found"))
        ELSE IF someEqualIgnoringCase(principals, trimmed, oldName)
        THEN Refuse(PResponse(409, "A principal with this name already exists"))
        ELSE ToWrite(sort([principals EXCEPT ![index] = trimmed]))
deletePrincipal(principals, name) ==
    LET index == findIndex(principals, name)
    IN  IF index = 0 THEN Refuse(PResponse(404, "Principal not found"))
        ELSE ToWrite(SubSeq(principals, 1, index - 1)
                        \o SubSeq(principals, index + 1, Len(principals)))

\* await readPrincipals() returns the list in the blob, or throws; the handler
\* goes on to its answer or to the upload of the list it made.
readPrincipals(h) ==
    /\ ph[h].pc = "read"
    /\ \/ LET step == CASE ph[h].op = "POST" -> addPrincipal(blob, ph[h].name)
                        [] ph[h].op = "PUT" ->
                               updatePrincipal(blob, ph[h].oldName, ph[h].name)
                        [] ph[h].op = "DELETE" -> deletePrincipal(blob, ph[h].name)
          IN  IF step.write
              THEN ph' = [ph EXCEPT ![h] = [@ EXCEPT !.pc = "write",
                                                     !.list = step.principals]]
              ELSE PAnswer(h, step.res)
       \/ PAnswer(h, PFailed(ph[h].op))
    /\ UNCHANGED <<tableVars, blob, track, uiVars, clientVars>>

\* await writePrincipals(principals): the upload replaces the blob, and the
\* list is returned; or the upload throws.
writePrincipals(h) ==
    /\ ph[h].pc = "write"
    /\ \/ /\ blob' = ph[h].list
          /\ PAnswer(h, [code |-> 200, success |-> TRUE, principals |-> ph[h].list])
       \/ /\ PAnswer(h, PFailed(ph[h].op))
          /\ UNCHANGED blob
    /\ UNCHANGED <<tableVars, track, uiVars, clientVars>>

\* The response is with the caller.
principalsEnd(h) ==
    /\ ph[h].pc = "done"
    /\ ph' = [ph EXCEPT ![h] = PIdle]
    /\ UNCHANGED <<tableVars, blob, track, uiVars, clientVars>>

\* The lists a blob may hold at the start: names no two of which are equal
\* ignoring case, in any order (the blob is not written by this server only).
StoredNames == {<<"a">>, <<"b">>, <<"c">>}
IsDeduplicated(principals) ==
    \A k, l \in 1..Len(principals) :
        k # l => toLowerCase(principals[k]) # toLowerCase(principals[l])
Blobs ==
    {l \in UNION {[1..n -> StoredNames] : n \in 0..3} : IsDeduplicated(l)}

InitPrincipalSpec ==
    /\ InitTable /\ InitTracking /\ InitUi /\ InitClient
    /\ blob \in Blobs
    /\ ph = [h \in PHandlers |-> PIdle]

NextPrincipals ==
    \/ \E h \in PHandlers, q \in PRequests : principalsReceive(h, q)
    \/ \E h \in PHandlers : readPrincipals(h)
    \/ \E h \in PHandlers : writePrincipals(h)
    \/ \E h \in PHandlers : principalsEnd(h)

\* Requests on /api/fiscal/principals, their handlers interleaved at their awaits.
PrincipalSpec == InitPrincipalSpec /\ [][NextPrincipals]_vars

\* ----------------------------------------------------------- /api/tracking
\* Entries (bodies and items of bulk bodies) applied to the store in a behaviour.
MaxEntries == 3

\* JSON values of the field mrn: a string, or an array holding one (a truthy
\* value that is no primitive); NULL is a missing field.
Str(x) == <<"string", x>>
Arr(x) == <<"array", x>>
\* a === b: primitives by value, objects by identity; the two sides are never
\* one object here (one comes from the body, the other from the file or from
\* another item of the body).
StrictEquals(a, b) == a = b /\ (a = NULL \/ a[1] # "array")

\* data.records.find(r => r.MRN === mrn); 0 for undefined.
find(records, mrn) ==
    LET found == {k \in 1..Len(records) : StrictEquals(records[k].MRN, mrn)}
    IN  IF found = {} THEN 0 ELSE CHOOSE k \in found : \A l \in found : k <= l

\* The body of one request or of one item of a bulk request is applied to
\* data: the record of the MRN is found or pushed, and the entry goes to the
\* start of its tracking_records.
unshift(records, mrn, tracking_data) ==
    LET index == find(records, mrn)
        data == IF index = 0
                THEN Append(records, [MRN |-> mrn, tracking_records |-> << >>])
                ELSE records
        at == IF index = 0 THEN Len(data) ELSE index
    IN  [data EXCEPT ![at].tracking_records = <<tracking_data>> \o @]

\* tracking_data of the next entry posted: an object no other entry equals
\* (entries are numbered as they are applied).
NextEntry == Val(track.posted + 1)

\* POST /api/tracking.  readFileSync and writeFileSync: the handler runs to
\* its end without an await.
postTracking(mrn, hasData) ==
    /\ track.posted < MaxEntries
    /\ IF mrn = NULL \/ ~hasData
       THEN track' = [track EXCEPT !.res = [code |-> 400,
                                            error |-> "Missing required fields"]]
       ELSE track' = [records |-> unshift(track.records, mrn, NextEntry),
                      res |-> [code |-> 200, success |-> TRUE],
                      posted |-> track.posted + 1,
                      accepted |-> Append(track.accepted, <<mrn, NextEntry>>)]
    /\ UNCHANGED <<tableVars, principalVars, uiVars, clientVars>>

\* records.forEach: the items are applied in order, none is checked.
RECURSIVE forEach(_, _, _)
forEach(records, items, n) ==
    IF items = << >> THEN records
    ELSE forEach(unshift(records, Head(items).mrn,
                         IF Head(items).hasData THEN Val(n + 1) ELSE NULL),
                 Tail(items), n + 1)
\* The entries of a bulk body that carry tracking_data, with their MRN.
RECURSIVE Entries(_, _)
Entries(items, n) ==
    IF items = << >> THEN << >>
    ELSE IF Head(items).hasData
    THEN <<(<<Head(items).mrn, Val(n + 1)>>)>> \o Entries(Tail(items), n + 1)
    ELSE Entries(Tail(items), n + 1)

\* POST /api/tracking/bulk; body.records is an array of items, or is not.
postTrackingBulk(isArray, items) ==
    /\ track.posted + Len(items) <= MaxEntries
    /\ IF ~isArray
       THEN track' = [track EXCEPT !.res = [code |-> 400,
                          error |-> "Invalid input containing records array"]]
       ELSE track' = [records |-> forEach(track.records, items, track.posted),
                      res |-> [code |-> 200, success |-> TRUE, updateCount |-> Len(items)],
                      posted |-> track.posted + Len(items),
                      accepted |-> track.accepted \o Entries(items, track.posted)]
    /\ UNCHANGED <<tableVars, principalVars, uiVars, clientVars>>

\* The values of mrn, and the bodies of bulk requests, of up to two items.
Mrns == {NULL, Str("A"), Str("B"), Arr("A")}
BulkItem(mrn, hasData) == [mrn |-> mrn, hasData |-> hasData]
BulkItems == {BulkItem(mrn, d) : mrn \in Mrns, d \in BOOLEAN}
BulkBodies == UNION {[1..n -> BulkItems] : n \in 0..2}

NextTracking ==
    \/ \E mrn \in Mrns, d \in BOOLEAN : postTracking(mrn, d)
    \/ \E items \in BulkBodies : postTrackingBulk(TRUE, items)
    \/ postTrackingBulk(FALSE, << >>)

TrackSpec == Init /\ [][NextTracking]_vars

\* -------------------------------------------------------------- OdooClient
\* RPCs of one kind sent in a behaviour.
MaxRpc == 4
\* The uid Odoo returns for the credentials of the client.
OdooUid == Val(2)

\* execute starts: authenticate() returns at once when uid is set, and
\* execute_kw is sent with it; otherwise the 'authenticate' RPC is sent and
\* the call waits for it.
execute(c) ==
    /\ ex[c] = "idle"
    /\ \A o \in Calls : o < c => ex[o] # "idle"
    /\ IF client.uid # NULL
       THEN /\ client.execute_kw < MaxRpc
            /\ client' = [client EXCEPT !.execute_kw = @ + 1]
            /\ ex' = [ex EXCEPT ![c] = "execute_kw"]
       ELSE /\ client.authenticate < MaxRpc
            /\ client' = [client EXCEPT !.authenticate = @ + 1]
            /\ ex' = [ex EXCEPT ![c] = "authenticate"]
    /\ UNCHANGED <<tableVars, principalVars, track, uiVars>>

\* The 'authenticate' RPC returns a uid: it is stored, and execute sends
\* execute_kw with this.uid.
authenticate_returns(c) ==
    /\ ex[c] = "authenticate"
    /\ client.execute_kw < MaxRpc
    /\ client' = [client EXCEPT !.uid = OdooUid, !.execute_kw = @ + 1]
    /\ ex' = [ex EXCEPT ![c] = "execute_kw"]
    /\ UNCHANGED <<tableVars, principalVars, track, uiVars>>

\* The 'authenticate' RPC is rejected or returns a falsy uid: authenticate
\* throws, and so does execute.
authenticate_throws(c) ==
    /\ ex[c] = "authenticate"
    /\ client' = [client EXCEPT !.failed = @ + 1]
    /\ ex' = [ex EXCEPT ![c] = "idle"]
    /\ UNCHANGED <<tableVars, principalVars, track, uiVars>>

\* The 'execute_kw' RPC settles, and with it the call.
execute_settles(c) ==
    /\ ex[c] = "execute_kw"
    /\ ex' = [ex EXCEPT ![c] = "idle"]
    /\ UNCHANGED <<tableVars, principalVars, track, uiVars, client>>

NextClient ==
    \/ \E c \in Calls : execute(c)
    \/ \E c \in Calls : authenticate_returns(c)
    \/ \E c \in Calls : authenticate_throws(c)
    \/ \E c \in Calls : execute_settles(c)

\* execute calls of one client, interleaved at their awaits.
ClientSpec == Init /\ [][NextClient]_vars

\* -------------------------------------------------------- DeclarationsList
\* A render after a state change: the effect that installs the keydown
\* listener runs again only when rows or focusedIndex changed
\* (selectedDeclaration stays null), and the listener keeps the
\* handleCreateProject of the render it was installed in.
Commit(old, new) ==
    [new EXCEPT
        !.listener = IF new.rows # old.rows \/ new.focusedIndex # old.focusedIndex
                     THEN [isCreatingProject |-> new.isCreatingProject,
                           isBulkSyncing |-> new.isBulkSyncing]
                     ELSE old.listener]

\* A create-project sequence: the id of the request awaited, the ids still to
\* request, the counts of the bulk loop and idsToSync.length.
Flight(bulk, ids) ==
    [bulk |-> bulk, id |-> Head(ids), rest |-> Tail(ids),
     successCount |-> 0, failCount |-> 0, length |-> Len(ids)]

\* handleCreateProject(row) as called from a closure that saw the flags
\* `saw`: the Safety Lock returns, or isCreatingProject is set and the
\* request is sent.
handleCreateProject(id, saw) ==
    IF saw.isCreatingProject \/ saw.isBulkSyncing
    THEN UNCHANGED <<ui, flights>>
    ELSE /\ BagCardinality(flights) < MaxFlights
         /\ ui' = Commit(ui, [ui EXCEPT !.isCreatingProject = TRUE])
         /\ flights' = flights (+) SetToBag({Flight(FALSE, <<id>>)})

\* keydown with the modal closed: the arrows move focusedIndex, Space calls
\* the listener's handleCreateProject for a focused row shown as NEW.
handleKeyDown(key) ==
    /\ CASE key = "ArrowDown" ->
                /\ ui' = Commit(ui, [ui EXCEPT !.focusedIndex =
                            IF @ + 1 < NumUiRows - 1 THEN @ + 1 ELSE NumUiRows - 1])
                /\ UNCHANGED flights
         [] key = "ArrowUp" ->
                /\ ui' = Commit(ui, [ui EXCEPT !.focusedIndex =
                            IF @ - 1 > 0 THEN @ - 1 ELSE 0])
                /\ UNCHANGED flights
         [] key = " " ->
                IF ui.focusedIndex >= 0 /\ ui.rows[ui.focusedIndex + 1] = "NEW"
                THEN handleCreateProject(ui.focusedIndex + 1, ui.listener)
                ELSE UNCHANGED <<ui, flights>>
    /\ UNCHANGED <<tableVars, principalVars, track, clientVars>>

\* A click on the button of a row shown as NEW, which is disabled while
\* isCreatingProject or isBulkSyncing is set.
ClickCreate(id) ==
    /\ ui.rows[id] = "NEW"
    /\ ~(ui.isCreatingProject \/ ui.isBulkSyncing)
    /\ handleCreateProject(id, ui)
    /\ UNCHANGED <<tableVars, principalVars, track, clientVars>>

\* The ids of a list without id.
Without(ids, id) ==
    SelectSeq(ids, LAMBDA x : x # id)

\* toggleSelectRow(id): the id leaves the selection or joins it.
toggleSelectRow(id) ==
    /\ ui' = Commit(ui, [ui EXCEPT !.selectedIds =
                IF \E i \in 1..Len(ui.selectedIds) :
                        ui.selectedIds[i] = id
                THEN Without(ui.selectedIds, id)
                ELSE Append(ui.selectedIds, id)])
    /\ UNCHANGED <<flights, tableVars, principalVars, track, clientVars>>

\* toggleSelectAll: clears when every row is selected, else selects the rows
\* in their order.
toggleSelectAll ==
    /\ ui' = Commit(ui, [ui EXCEPT !.selectedIds =
                IF Len(ui.selectedIds) = NumUiRows
                THEN << >>
                ELSE [i \in UiIds |-> i]])
    /\ UNCHANGED <<flights, tableVars, principalVars, track, clientVars>>

\* A click on 'Sync Selected', shown while ids are selected and disabled while
\* isBulkSyncing is set: handleBulkSync returns at its Safety
\* Lock, or sets isBulkSyncing and sends the request of the first id.
handleBulkSync ==
    /\ Len(ui.selectedIds) > 0
    /\ ~ui.isBulkSyncing
    /\ IF ui.isCreatingProject
       THEN UNCHANGED <<ui, flights>>
       ELSE /\ BagCardinality(flights) < MaxFlights
            /\ ui' = Commit(ui, [ui EXCEPT !.isBulkSyncing = TRUE, !.toast = NULL])
            /\ flights' = flights (+) SetToBag({Flight(TRUE, ui.selectedIds)})
    /\ UNCHANGED <<tableVars, principalVars, track, clientVars>>

\* The request a sequence awaits settles. handleCreateProject shows its
\* toast, calls refetch and clears isCreatingProject; the loop of
\* handleBulkSync counts the outcome and sends the request of the next id, or
\* after the last one clears selectedIds and isBulkSyncing and shows the
\* counts.
createOdooProject_settles(f, ok) ==
    /\ f \in BagToSet(flights)
    /\ LET table == [ui.server EXCEPT ![f.id] =
                        IF ok \/ @ = "CREATED" THEN "CREATED" ELSE "FAILED"]
           counted == [f EXCEPT !.successCount = IF ok THEN @ + 1 ELSE @,
                                !.failCount = IF ok THEN @ ELSE @ + 1]
           others == flights (-) SetToBag({f})
       IN  IF ~f.bulk
           THEN /\ ui' = Commit(ui, [ui EXCEPT !.server = table,
                                               !.isCreatingProject = FALSE,
                                               !.toast = NULL])
                /\ flights' = others
           ELSE IF f.rest # << >>
           THEN /\ ui' = [ui EXCEPT !.server = table]
                /\ flights' = others (+) SetToBag({
                        [counted EXCEPT !.id = Head(f.rest), !.rest = Tail(f.rest)]})
           ELSE /\ ui' = Commit(ui, [ui EXCEPT
                                !.server = table, !.selectedIds = << >>,
                                !.isBulkSyncing = FALSE,
                                !.toast = [successCount |-> counted.successCount,
                                           failCount |-> counted.failCount,
                                           length |-> f.length]])
                /\ flights' = others
    /\ UNCHANGED <<tableVars, principalVars, track, clientVars>>

\* The toast disappears three seconds after it was shown.
ToastExpires ==
    /\ ui.toast # NULL
    /\ ui' = [ui EXCEPT !.toast = NULL]
    /\ UNCHANGED <<flights, tableVars, principalVars, track, clientVars>>

\* The query delivers the rows of the table: a render with new rows.
RefetchArrives ==
    /\ ui.rows # ui.server
    /\ ui' = Commit(ui, [ui EXCEPT !.rows = ui.server])
    /\ UNCHANGED <<flights, tableVars, principalVars, track, clientVars>>

NextUi ==
    \/ \E key \in {"ArrowDown", "ArrowUp", " "} : handleKeyDown(key)
    \/ \E id \in UiIds : ClickCreate(id)
    \/ \E id \in UiIds : toggleSelectRow(id)
    \/ toggleSelectAll
    \/ handleBulkSync
    \/ \E f \in BagToSet(flights), ok \in BOOLEAN : createOdooProject_settles(f, ok)
    \/ ToastExpires
    \/ RefetchArrives

\* One mounted page under clicks, key presses and settling requests.
UiSpec == Init /\ [][NextUi]_vars

\* ------------------------------------------------------------ the claims
Status(id) == rows[id].odoo_status

\* Changes of odoo_status as the lifecycle NEW, PENDING, (CREATED | FAILED)
\* allows them, and with the retry of a FAILED declaration added.
PrefixSteps == {<<"NEW", "PENDING">>, <<"PENDING", "CREATED">>, <<"PENDING", "FAILED">>}
RetrySteps == PrefixSteps \cup {<<"FAILED", "PENDING">>}

\* Every row starts in NEW and every change of its odoo_status is in steps.
StatusMovesBy(steps) ==
    \A id \in DOMAIN rows' :
        IF id \in DOMAIN rows
        THEN \/ rows'[id].odoo_status = rows[id].odoo_status
             \/ <<rows[id].odoo_status, rows'[id].odoo_status>> \in steps
        ELSE rows'[id].odoo_status = "NEW"

C2_CreatedIsTerminal ==
    [][\A id \in DOMAIN rows : Status(id) = "CREATED" => rows'[id].odoo_status = "CREATED"]_vars

\* C3: in every reachable state odoo_project_id is non-null exactly when
\* odoo_status is CREATED.
C3_ProjectIdIffCreated ==
    \A id \in DOMAIN rows : (rows[id].odoo_project_id # NULL) <=> (Status(id) = "CREATED")

\* C4: in every reachable state odoo_error is non-null exactly when odoo_status
\* is FAILED (so a FAILED declaration that is requested again has no error
\* while it is PENDING).
C4_ErrorIffFailed ==
    \A id \in DOMAIN rows : (rows[id].odoo_error # NULL) <=> (Status(id) = "FAILED")

\* C5: the lookup of an unknown id answers 404, the lookup of a declaration
\* that is CREATED, or for which a success response was sent, answers 400
\* "Ticket already exists" (500 when the statement throws); a request that is
\* answered at its lookup has changed no row and started no collaborator call,
\* and its handler is over.
C5_RejectedRequestHasNoEffect ==
    [][\A r \in Reqs :
          (pc[r] = "select" /\ pc'[r] \in {"done", "pending"}) =>
              LET id == rid[r]
              IN  /\ id \notin DOMAIN rows =>
                        /\ pc'[r] = "done"
                        /\ res'[r] \in {[code |-> 404, error |-> "Declaration not found"],
                                        InternalServerError}
                  /\ (id \in DOMAIN rows /\ (Status(id) = "CREATED" \/ id \in sent200)) =>
                        /\ pc'[r] = "done"
                        /\ res'[r] \in {[code |-> 400, error |-> "Ticket already exists",
                                         odoo_project_id |-> rows[id].odoo_project_id],
                                        InternalServerError}
                  /\ pc'[r] = "done" => (rows' = rows /\ tickets' = tickets)]_vars

\* C5 witness: a second request for a declaration whose ticket was created has
\* been answered 400.
C5_SecondRequestRejected ==
    \E r \in Reqs : /\ pc[r] = "done"
                    /\ rid[r] \in sent200
                    /\ res[r].code = 400
                    /\ Status(rid[r]) = "CREATED"

\* C6: while a collaborator call of a request is outstanding, and after a
\* crash that caught the request with its call begun, the stored odoo_status
\* of its declaration is not NEW, and is PENDING when no other request for
\* the declaration overlapped it.
C6_PendingIsWrittenBeforeTheCall ==
    \A r \in Reqs :
        (Called(r) \/ r \in crashed) =>
            /\ rid[r] \in DOMAIN rows
            /\ Status(rid[r]) # "NEW"
            /\ ~overlap[r] => Status(rid[r]) = "PENDING"

\* C6 witness: a crash caught a handler whose collaborator call had begun, and
\* its declaration is left PENDING.
C6_CrashedMidFlight ==
    \E r \in crashed : pc[r] = "crashed" /\ ~overlap[r] /\ Status(rid[r]) = "PENDING"

\* C7: the step that ends a request whose createOdooTicket returned t either
\* finds the UPDATE throwing (500, no row changed) or leaves the row at
\* CREATED with odoo_project_id = t, odoo_error = NULL and odoo_updated_at the
\* time of the step, and answers {success: true, odoo_project_id: t,
\* status: 'CREATED'}.
C7_SuccessIsStoredAndAnswered ==
    [][\A r \in Reqs :
          (pc[r] = "created" /\ pc'[r] = "done") =>
              LET id == rid[r]
              IN  \/ rows' = rows /\ res'[r] = InternalServerError
                  \/ /\ ticketId[r] # NULL
                     /\ <<id, ticketId[r][1]>> \in tickets
                     /\ rows'[id].odoo_status = "CREATED"
                     /\ rows'[id].odoo_project_id = ticketId[r]
                     /\ rows'[id].odoo_error = NULL
                     /\ rows'[id].odoo_updated_at = Val(now)
                     /\ res'[r] = [code |-> 200, success |-> TRUE,
                                   odoo_project_id |-> ticketId[r],
                                   status |-> "CREATED"]]_vars

\* C7 witness: a request has been answered with success after the clock moved,
\* and the row carries the ticket and the time of the write.
C7_SuccessAnswered ==
    \E r \in Reqs : /\ pc[r] = "done"
                    /\ res[r].code = 200
                    /\ now > 0
                    /\ rows[rid[r]].odoo_project_id = res[r].odoo_project_id
                    /\ rows[rid[r]].odoo_updated_at = Val(now)

\* C8: the step that ends a request whose createOdooTicket threw with message
\* m, its UPDATE having succeeded, writes FAILED and odoo_error = m over a row
\* that was PENDING, leaves odoo_project_id NULL, and answers 502 with details m.
C8_FailureIsStoredOverPending ==
    [][\A r \in Reqs :
          (pc[r] = "failed" /\ pc'[r] = "done" /\ res'[r] # InternalServerError
                /\ TruthyStr(odooErr[r])) =>
              LET id == rid[r]
              IN  /\ Status(id) = "PENDING"
                  /\ rows'[id].odoo_status = "FAILED"
                  /\ rows'[id].odoo_error = odooErr[r]
                  /\ rows'[id].odoo_project_id = NULL
                  /\ res'[r].code = 502
                  /\ res'[r].details = odooErr[r]]_vars

\* C9: a request that finds its declaration FAILED is not rejected (its lookup
\* ends in the UPDATE to PENDING, or in 500 when the statement throws); its
\* UPDATE moves the row to PENDING and starts the collaborator; and when the
\* collaborator returns t and the UPDATE succeeds the row is CREATED with
\* odoo_project_id = t and odoo_error = NULL.
C9_FailedCanBeRetried ==
    [][\A r \in Reqs :
          LET id == rid[r]
          IN  /\ (pc[r] = "select" /\ pc'[r] = "done" /\ id \in DOMAIN rows
                     /\ Status(id) = "FAILED") => res'[r] = InternalServerError
              /\ (pc[r] = "pending" /\ pc'[r] = "calling" /\ Status(id) = "FAILED") =>
                     rows'[id].odoo_status = "PENDING"
              /\ (pc[r] = "created" /\ pc'[r] = "done" /\ rows' # rows) =>
                     /\ rows'[id].odoo_status = "CREATED"
                     /\ rows'[id].odoo_project_id = ticketId[r]
                     /\ rows'[id].odoo_error = NULL]_vars

\* C10: a row that is CREATED carries the id of a ticket the collaborator
\* returned for that declaration, and no step of a request whose collaborator
\* call threw writes CREATED.
C10_CreatedOnlyAfterCollaboratorSuccess ==
    /\ [](\A id \in DOMAIN rows :
            Status(id) = "CREATED" =>
                \E t \in 1..MaxTickets : /\ <<id, t>> \in tickets
                                         /\ rows[id].odoo_project_id = Val(t))
    /\ [][\A r \in Reqs :
            (odooErr[r] # NULL /\ pc'[r] # pc[r] /\ rows' # rows) =>
                rows'[rid[r]].odoo_status # "CREATED"]_vars

\* C10 witness: the collaborator has created two tickets for a declaration and
\* the row, CREATED, carries the second.
C10_CreatedWithSecondTicket ==
    \E id \in DOMAIN rows : /\ Status(id) = "CREATED"
                            /\ Cardinality(tickets) = 2
                            /\ rows[id].odoo_project_id = Val(2)

\* C11: when the process stays up, createOdooTicket settles and the UPDATEs
\* succeed, every request that has written PENDING and started the
\* collaborator is eventually answered 200 or 502 with its declaration at
\* CREATED or FAILED, and the step that answers a request that wrote PENDING
\* leaves its row at CREATED or FAILED, never at PENDING.
C11_PendingIsTransient ==
    /\ \A r \in Reqs :
          (pc[r] = "calling") ~>
              (/\ pc[r] = "done"
               /\ res[r].code \in {200, 502}
               /\ Status(rid[r]) \in {"CREATED", "FAILED"})
    /\ [][\A r \in Reqs :
            (pc[r] \in {"created", "failed"} /\ pc'[r] = "done") =>
                rows'[rid[r]].odoo_status \in {"CREATED", "FAILED"}]_vars

\* C11 witness: a request whose collaborator call threw has been answered 502
\* and its declaration is FAILED.
C11_FailedRequestAnswered ==
    \E r \in Reqs : /\ pc[r] = "done"
                    /\ res[r].code = 502
                    /\ Status(rid[r]) = "FAILED"

\* A step of the sync handler (each of its steps moves sync.pc).
SyncStep == sync' # sync
\* The declaration ids of the batch the sync handler works on.
BatchIds == {sync.body.items[k].DECLARATIONID[1] : k \in 1..Len(sync.body.items)}

\* C12: every declaration_id that accepted sync batches have brought, however
\* often and also twice in one batch, has one row; the row's first_seen_at is
\* the time of the first ingest of the id and its last_seen_at the time of the
\* latest one; and the table holds no other row.
C12_ResyncKeepsOneRowAndFirstSeen ==
    /\ DOMAIN rows = DOMAIN seen
    /\ \A id \in DOMAIN seen : /\ rows[id].first_seen_at = seen[id].first
                               /\ rows[id].last_seen_at = seen[id].last

\* C12 witness: declaration 1 was ingested at time 0 and again later, by a
\* batch that holds it twice.
C12_IngestedAgainLater ==
    /\ sync.pc = "end"
    /\ syncRes.code = 200
    /\ sync.body.items = <<Item1, Item1b>>
    /\ 1 \in DOMAIN seen
    /\ seen[1].first = 0
    /\ seen[1].last > 0

\* C13: a step of the sync handler changes no column of a row the table
\* already holds other than last_seen_at, whatever the batch carries for the
\* row and whatever its odoo_status is.
C13_ReingestWritesLastSeenOnly ==
    [][SyncStep =>
          \A id \in DOMAIN rows :
              /\ id \in DOMAIN rows'
              /\ \A c \in DOMAIN rows[id] \ {"last_seen_at"} : rows'[id][c] = rows[id][c]]_vars

\* C13 witness: declaration 1, brought with principal IDEAL and since CREATED,
\* has been ingested again by a batch that carries another principal and link
\* for it.
C13_CreatedRowIngestedAgain ==
    /\ sync.pc = "end"
    /\ syncRes.code = 200
    /\ sync.body.items = <<Item1, Item1b>>
    /\ 1 \in DOMAIN rows
    /\ rows[1].odoo_status = "CREATED"
    /\ rows[1].principal = IDEAL
    /\ rows[1].last_seen_at > rows[1].first_seen_at

\* The writes of a batch reach the table in one step, all of them together,
\* with the success response; no other step of the sync handler changes the
\* table.
BatchAppliedAtOnce ==
    (SyncStep /\ rows' # rows) =>
        /\ sync.pc = "commit"
        /\ syncRes'.code = 200
        /\ \A id \in BatchIds : id \in DOMAIN rows' /\ rows'[id].last_seen_at = sync.t

\* A handler that ends without having committed has answered with an error.
FailureIsAnswered ==
    (SyncStep /\ sync'.pc = "end" /\ sync.pc # "commit") => syncRes'.code >= 400

\* C14: the sync handler changes the table only by its commit, which applies
\* the whole batch at once (so no reader sees part of a batch); when the store
\* rejects a record or a step of the handler fails, the handler leaves the
\* table as it was and answers with an error.
C14_BatchIsAtomicAndFailureAnswered ==
    [][BatchAppliedAtOnce /\ FailureIsAnswered]_vars

\* C15: a batch with the right secret that holds an item with no DECLARATIONID
\* is answered 400 on arrival: the handler asks for no connection.
C15_MissingIdRejectedOnArrival ==
    [][(/\ sync.pc = "idle"
        /\ sync'.pc # "idle"
        /\ sync'.secret = SYNC_SECRET
        /\ sync'.body.kind = "array"
        /\ \E k \in 1..Len(sync'.body.items) : sync'.body.items[k].DECLARATIONID = NULL)
          => (sync'.pc = "rejected" /\ syncRes'.code = 400)]_vars

\* C16: on arrival, a request with a wrong secret is answered 401, also when
\* its payload is invalid, and one with the right secret whose items is
\* missing, not an array or empty is answered 400; a request so answered is
\* over: it asks for no connection, and the table is as it was.
C16_RejectedBeforeAnyMutation ==
    [][/\ (sync.pc = "idle" /\ sync'.pc # "idle") =>
             /\ sync'.secret # SYNC_SECRET =>
                   (sync'.pc = "rejected" /\ syncRes'.code = 401 /\ rows' = rows)
             /\ (/\ sync'.secret = SYNC_SECRET
                 /\ (sync'.body.kind # "array" \/ sync'.body.items = << >>)) =>
                   (sync'.pc = "rejected" /\ syncRes'.code = 400 /\ rows' = rows)
       /\ (sync.pc = "rejected" /\ SyncStep) => (sync'.pc = "idle" /\ rows' = rows)]_vars

\* C16 witness: a request with a wrong secret and no items has been answered 401.
C16_BadSecretBadPayload ==
    /\ sync.pc = "rejected"
    /\ sync.secret # SYNC_SECRET
    /\ sync.body.kind = "missing"
    /\ syncRes.code = 401

\* The query with status=NEW and nothing else.
StatusNew == Query(NULL, NULL, NULL, NULL, Val("NEW"), NULL, NULL)
\* A row in the initial state of the lifecycle, which the query status=NEW selects.
Fresh(row) ==
    /\ row.odoo_status = "NEW"
    /\ row.odoo_project_id = NULL
    /\ row.odoo_error = NULL
    /\ Where(row, StatusNew)

\* C17: a row that enters the table has odoo_status NEW, odoo_project_id and
\* odoo_error NULL, and is selected by the query status=NEW; and it stays so
\* through every step but the UPDATE to PENDING of a create-project request
\* for its id.
C17_InsertedRowIsNewUntilRequested ==
    [][\A id \in DOMAIN rows' :
          /\ id \notin DOMAIN rows => Fresh(rows'[id])
          /\ (id \in DOMAIN rows /\ Fresh(rows[id]) /\ ~Fresh(rows'[id])) =>
                \E r \in Reqs : rid[r] = id /\ pc[r] = "pending" /\ pc'[r] = "calling"]_vars

\* C17 witness: declarations 1 and 2 were brought by one batch; a ticket was
\* created for 1, no request was made for 2, which is still in NEW.
C17_UnrequestedRowStillNew ==
    /\ DOMAIN rows = {1, 2}
    /\ rows[1].odoo_status = "CREATED"
    /\ rows[1].first_seen_at = rows[2].first_seen_at
    /\ Fresh(rows[2])
    /\ now > 0

\* A link holds a run of GuidLen hexadecimal characters from position i on.
HexRunAt(link, i) ==
    /\ i + GuidLen - 1 <= Len(link)
    /\ \A k \in i..(i + GuidLen - 1) : link[k] \in HexChars

\* C18: for every link value of a batch the handler works on, extractGuid
\* does not throw; when the value holds a run of 32 hexadecimal characters it
\* returns the 32 characters of the first one, and "UNKNOWN" for every other
\* value (null and the empty string among them).
C18_ExtractGuidIsTotal ==
    (sync.pc # "idle" /\ sync.body.kind = "array") =>
        \A k \in 1..Len(sync.body.items) :
            LET link == sync.body.items[k].ODOO_LINKSTRING_STREAMSOFTWARE
                guid == extractGuid(link)
            IN  /\ guid # TypeError
                /\ IF \E i \in 1..Len(link) : HexRunAt(link, i)
                   THEN \E i \in 1..Len(link) :
                            /\ HexRunAt(link, i)
                            /\ \A j \in 1..(i - 1) : ~HexRunAt(link, j)
                            /\ guid = SubSeq(link, i, i + GuidLen - 1)
                   ELSE guid = UNKNOWN

\* A query parameter that is a number in decimal digits, and its value.
Digits == DOMAIN DigitValue
IsNumeric(str) == str # << >> /\ \A k \in 1..Len(str) : str[k] \in Digits
\* A query parameter with an integer at its start, after blanks and a sign.
RECURSIVE HasLeadingInteger(_)
HasLeadingInteger(str) ==
    /\ str # << >>
    /\ IF Head(str) = " " THEN HasLeadingInteger(Tail(str))
       ELSE IF Head(str) \in {"+", "-"} THEN Tail(str) # << >> /\ Head(Tail(str)) \in Digits
       ELSE Head(str) \in Digits

\* The rows a query counts.
Matching(q) == {id \in DOMAIN rows : Where(rows[id], q)}
Answered == list # NoRes /\ list.res.code = 200

\* total is the number of matching rows whatever the page, totalPages is
\* ceil(total / pageSize), and the page holds min(s, max(0, T - (p - 1) * s)) rows.
PaginationMath ==
    Answered =>
        LET T == Cardinality(Matching(list.query))
            p == list.res.pagination.page
            s == list.res.pagination.pageSize
            left == IF T - (p - 1) * s > 0 THEN T - (p - 1) * s ELSE 0
        IN  /\ p >= 1 /\ s >= 1
            /\ list.res.pagination.total = T
            /\ list.res.pagination.totalPages * s >= T
            /\ (list.res.pagination.totalPages - 1) * s < T \/ T = 0
            /\ T = 0 => list.res.pagination.totalPages = 0
            /\ Len(list.res.data) = IF s < left THEN s ELSE left

Contains(str, sub) ==
    \E i \in 1..(Len(str) - Len(sub) + 1) : SubSeq(str, i, i + Len(sub) - 1) = sub
\* The row satisfies every filter the query supplies.
Satisfies(row, q) ==
    /\ q.from # NULL =>
          row.date_of_acceptance # NULL /\ row.date_of_acceptance[1] >= q.from[1]
    /\ q.to # NULL =>
          row.date_of_acceptance # NULL /\ row.date_of_acceptance[1] <= q.to[1]
    /\ q.status # NULL => row.odoo_status = q.status[1]
    /\ q.principal # NULL => row.principal # NULL /\ Contains(row.principal, q.principal)
    /\ q.importer # NULL =>
          row.importer_code # NULL /\ Contains(row.importer_code, q.importer)

\* C20: the rows counted and returned are the rows that satisfy every filter
\* supplied (dates in the range, status equal, principal and importer code
\* holding the given substring), an absent filter excluding nothing; the rows
\* of a page are in descending order of acceptance date, undated rows last,
\* and the rows dated later than the first row of a page are on earlier pages.
C20_FiltersAreConjunctiveSubstrings ==
    Answered =>
        LET q == list.query
            data == list.res.data
            expected == {id \in DOMAIN rows : Satisfies(rows[id], q)}
            offset == (list.res.pagination.page - 1) * list.res.pagination.pageSize
        IN  /\ list.res.pagination.total = Cardinality(expected)
            /\ \A k \in 1..Len(data) : data[k] \in expected
            /\ \A k, l \in 1..Len(data) : k # l => data[k] # data[l]
            /\ offset = 0 /\ Len(data) < list.res.pagination.pageSize =>
                  {data[k] : k \in 1..Len(data)} = expected
            /\ \A k, l \in 1..Len(data) :
                  k < l => SortKey(rows[data[k]]) >= SortKey(rows[data[l]])
            /\ data # << >> =>
                  Cardinality({id \in expected :
                                  SortKey(rows[id]) > SortKey(rows[data[1]])}) <= offset

\* The ticket-integration columns, and their values in a row.
TicketFields == {"odoo_status", "odoo_project_id", "odoo_error", "odoo_updated_at"}
TicketOf(row) == [c \in TicketFields |-> row[c]]

\* C21: a step of a createProject handler for id leaves the set of rows, every
\* column of every other row, and every column of row id but odoo_status,
\* odoo_project_id, odoo_error and odoo_updated_at as they were, whether the
\* request ends in success, failure or rejection.
C21_OnlyTicketFieldsOfOneRowChange ==
    [][pc' # pc =>
          /\ DOMAIN rows' = DOMAIN rows
          /\ \A id \in DOMAIN rows :
                /\ \A c \in (DOMAIN rows[id]) \ TicketFields : rows'[id][c] = rows[id][c]
                /\ rows'[id] # rows[id] =>
                      \E r \in Reqs : pc'[r] # pc[r] /\ rid[r] = id]_vars

\* C21 witness: at time 1 a request was answered 502 and its row is FAILED,
\* with the ingest times of time 0, beside a request that was rejected.
C21_FailedBesideRejected ==
    /\ now = 1
    /\ \E r, o \in Reqs :
          /\ res[r].code = 502
          /\ rows[rid[r]].odoo_status = "FAILED"
          /\ rows[rid[r]].odoo_updated_at = Val(1)
          /\ rows[rid[r]].last_seen_at = 0
          /\ res[o].code = 400

\* What a request for a declaration that nothing else touches can leave: the
\* ticket fields of the row, and the response, for a row that was row0.
Times == 0..MaxTime
SoloOutcomes(row0) ==
    IF row0.odoo_project_id # NULL /\ row0.odoo_project_id[1] # 0
    THEN { <<TicketOf(row0), InternalServerError>>,
           <<TicketOf(row0), [code |-> 400, error |-> "Ticket already exists",
                              odoo_project_id |-> row0.odoo_project_id]>> }
    ELSE { <<TicketOf(row0), InternalServerError>> }
         \cup { <<[odoo_status |-> "PENDING", odoo_project_id |-> row0.odoo_project_id,
                   odoo_error |-> row0.odoo_error, odoo_updated_at |-> Val(t)],
                  InternalServerError>> : t \in Times }
         \cup { <<[odoo_status |-> "CREATED", odoo_project_id |-> Val(k),
                   odoo_error |-> NULL, odoo_updated_at |-> Val(t)],
                  [code |-> 200, success |-> TRUE, odoo_project_id |-> Val(k),
                   status |-> "CREATED"]>> : k \in 1..MaxTickets, t \in Times }
         \cup { <<[odoo_status |-> "FAILED", odoo_project_id |-> row0.odoo_project_id,
                   odoo_error |-> Val(IF m = "" THEN "Unknown Odoo Error" ELSE m),
                   odoo_updated_at |-> Val(t)],
                  [code |-> 502, error |-> "Failed to create ticket in Odoo",
                   details |-> Val(m)]>> : m \in ErrMessages, t \in Times }

\* C24: with one request for declaration 1 and one for declaration 2, however
\* their handlers interleave, a request that has answered leaves its row and
\* its response as a request running alone would, and no step of a handler
\* changes the row of the other declaration.
C24_DifferentIdsAreIndependent ==
    /\ [](\A r \in Reqs :
             pc[r] = "done" =>
                 \E table \in PairTables :
                     /\ <<TicketOf(rows[rid[r]]), res[r]>> \in SoloOutcomes(table[rid[r]])
                     /\ \A c \in (DOMAIN rows[rid[r]]) \ TicketFields :
                           rows[rid[r]][c] = table[rid[r]][c])
    /\ [][\A r \in Reqs :
             (pc'[r] # pc[r] /\ rid'[r] # NoId) =>
                 \A id \in (DOMAIN rows) \ {rid'[r]} : rows'[id] = rows[id]]_vars

\* C24 witness: the request for declaration 1 arrived first, the ticket for
\* declaration 2 was made first, and both requests were answered 200.
C24_InterleavedSuccesses ==
    /\ rid = <<1, 2>>
    /\ tickets = {<<2, 1>>, <<1, 2>>}
    /\ \A r \in Reqs : pc[r] = "done" /\ res[r].code = 200

\* The tickets the collaborator made for a declaration.
TicketsFor(id) == {t \in tickets : t[1] = id}

\* C25: a handler whose SELECT returns a row without a project id passes the
\* check whatever the row's status and whatever other handlers for the same
\* declaration do, and a handler past the check calls createOdooTicket: the
\* state in which two overlapping requests for one NEW declaration have both
\* had a ticket made is reachable (the witness).
C25_CheckPassesWhileAnotherIsUnderWay ==
    [][\A r \in Reqs :
          /\ (/\ pc[r] = "select" /\ pc'[r] \notin {"select", "crashed"}
              /\ rid[r] \in DOMAIN rows
              /\ rows[rid[r]].odoo_project_id = NULL
              /\ res'[r] # InternalServerError) => pc'[r] = "pending"
          /\ (pc[r] = "pending" /\ pc'[r] # "pending" /\ rows' # rows) =>
                pc'[r] = "calling"]_vars

\* C25 witness: two requests for declaration 1 were both past the check
\* before either UPDATE to PENDING, and the collaborator made a ticket for each.
C25_TwoTicketsForOneDeclaration ==
    /\ Cardinality(TicketsFor(1)) = 2
    /\ \A r \in Reqs : rid[r] = 1 /\ overlap[r] /\ pc[r] = "created"
    /\ rows[1].odoo_status = "PENDING"
    /\ rows[1].odoo_project_id = NULL

\* C26: over requests for a declaration that do not overlap, on a process
\* that stays up, the collaborator makes at most one ticket for the
\* declaration, also when UPDATE statements throw.
C26_OneTicketWithoutOverlap ==
    \A id \in DOMAIN rows : Cardinality(TicketsFor(id)) <= 1

\* The names of a list.
NamesOf(principals) == {principals[k] : k \in 1..Len(principals)}
\* The list is in alphabetical order, ignoring case.
IsSorted(principals) ==
    \A k \in 1..(Len(principals) - 1) :
        localeCompare(toLowerCase(principals[k]), toLowerCase(principals[k + 1])) <= 0
\* The step is handler h getting the list of the blob (readPrincipals returns).
ReadsBlob(h) ==
    ph[h].pc = "read" /\ ph'[h].pc # "read" /\ ph'[h].res # PFailed(ph[h].op)

\* C22: the stored list holds no two names equal ignoring case, and a POST or
\* PUT whose name, trimmed, equals ignoring case a name of the list read
\* (another one than the name a PUT replaces) is answered 409 and writes
\* nothing.
C22_NoCaseInsensitiveDuplicates ==
    /\ [](IsDeduplicated(blob))
    /\ [][\A h \in PHandlers :
             (/\ ReadsBlob(h)
              /\ ph[h].op \in {"POST", "PUT"}
              /\ ph[h].op = "PUT" => ph[h].oldName \in NamesOf(blob)
              /\ \E n \in NamesOf(blob) :
                    /\ toLowerCase(n) = toLowerCase(trim(ph[h].name))
                    /\ ph[h].op = "PUT" => n # ph[h].oldName)
                 => /\ ph'[h].pc = "done"
                    /\ ph'[h].res.code = 409
                    /\ blob' = blob]_vars

\* C22 witness: with "A" and "b" stored, a POST and a PUT were answered 409.
C22_DuplicatesRefused ==
    /\ blob = <<(<<"A">>), (<<"b">>)>>
    /\ \E h, o \in PHandlers :
          /\ ph[h].op = "POST" /\ ph[h].res.code = 409
          /\ ph[o].op = "PUT" /\ ph[o].res.code = 409

\* C23: the list a successful POST, PUT or DELETE writes to the blob and
\* returns is in alphabetical order ignoring case, whatever the order of the
\* list it read.
C23_WrittenListIsSorted ==
    [][\A h \in PHandlers :
          (ph[h].pc = "write" /\ ph'[h].res.code = 200) =>
              /\ IsSorted(blob')
              /\ ph'[h].res.principals = blob']_vars

\* Every name of stored has a name equal to it ignoring case in other.
KeptIgnoringCase(stored, other) ==
    \A n \in NamesOf(stored) : \E o \in NamesOf(other) : toLowerCase(n) = toLowerCase(o)

\* C27: the upload of a successful request keeps what the other requests
\* stored: a POST keeps every stored name, a PUT and a DELETE every stored name
\* but the one they replace or remove; so two overlapping POSTs of different
\* names leave both stored, and the list holds no name twice.
C27_NoLostUpdate ==
    /\ [](IsDeduplicated(blob))
    /\ [][\A h \in PHandlers :
             (ph[h].pc = "write" /\ ph'[h].res.code = 200) =>
                 CASE ph[h].op = "POST" ->
                          /\ KeptIgnoringCase(blob, blob')
                          /\ trim(ph[h].name) \in NamesOf(blob')
                   [] ph[h].op = "PUT" ->
                          NamesOf(blob) \ {ph[h].oldName} \subseteq NamesOf(blob')
                   [] ph[h].op = "DELETE" ->
                          /\ NamesOf(blob) \ {ph[h].name} \subseteq NamesOf(blob')
                          /\ ph[h].name \notin NamesOf(blob')]_vars

\* The places an entry holds in the store: record and index.
PlacesOf(entry) ==
    {<<i, k>> \in (1..Len(track.records)) \X (1..MaxEntries) :
        /\ k <= Len(track.records[i].tracking_records)
        /\ track.records[i].tracking_records[k] = entry}

\* C29: no two records of the store have the same MRN; every entry accepted
\* is in the store exactly once, in the record of its MRN; the entries of a
\* record are in the order newest first; and a POST /api/tracking without mrn
\* or tracking_data is answered 400 and leaves the store as it was.
C29_TrackingStoreIsConsistent ==
    /\ [](/\ \A i, j \in 1..Len(track.records) :
                i # j => track.records[i].MRN # track.records[j].MRN
          /\ \A a \in 1..Len(track.accepted) :
                /\ Cardinality(PlacesOf(track.accepted[a][2])) = 1
                /\ \A pl \in PlacesOf(track.accepted[a][2]) :
                      track.records[pl[1]].MRN = track.accepted[a][1]
          /\ \A i \in 1..Len(track.records) :
                \A k, l \in 1..Len(track.records[i].tracking_records) :
                    LET older == track.records[i].tracking_records[l]
                        newer == track.records[i].tracking_records[k]
                    IN  (k < l /\ older # NULL /\ newer # NULL) => newer[1] > older[1])
    /\ [][track'.res.code = 400 => track'.records = track.records]_vars

\* C30: an 'execute_kw' RPC is sent only with a uid that an authenticate
\* returned; a uid once set stays; the client sends at most one 'authenticate'
\* RPC beyond those that failed, also when several execute calls start
\* before the first authenticate returns; and a failed authenticate leaves
\* uid as it was, with no 'execute_kw' sent by its call.
C30_AuthenticatesLazilyAndOnce ==
    /\ [](client.authenticate <= client.failed + 1)
    /\ [][/\ client'.execute_kw > client.execute_kw => client'.uid # NULL
          /\ client.uid # NULL =>
                client'.uid = client.uid /\ client'.authenticate = client.authenticate
          /\ client'.failed > client.failed =>
                client'.uid = client.uid /\ client'.execute_kw = client.execute_kw]_vars

\* C28: one mounted page has at most one create-project sequence under way
\* at any time; a bulk sync awaits one request at a time and has counted
\* every id before the one it awaits, whether it failed or not; and a
\* finished bulk sync shows successCount + failCount equal to the number of
\* selected ids.
C28_SafetyLockIsMutualExclusion ==
    /\ BagCardinality(flights) <= 1
    /\ \A f \in BagToSet(flights) :
           f.bulk => f.successCount + f.failCount + 1 + Len(f.rest) = f.length
    /\ ui.toast # NULL => ui.toast.successCount + ui.toast.failCount = ui.toast.length

====
